---- MODULE Spec2Model ----
\* A model of the agent orchestration loop of goclient (src/main.go):
\* Agent.Run, Agent.runInference, extractToolCall and Agent.executeTool.
\*
\* Go strings are modelled as sequences of one-character strings, so that
\* strings.Index, strings.LastIndex, strings.TrimSpace, slicing and
\* json.Valid are computed character by character as the code computes them.
\* Go's 0-based indices are kept: Index/LastIndex return -1 when absent and
\* Slice(s, a, b) is s[a:b].
EXTENDS Integers, Sequences, FiniteSets, TLC

\* ---------------------------------------------------------------------------
\* Bounds of the model
\* ---------------------------------------------------------------------------

\* cap on the number of runInference calls of one session
MaxInferences == 2
\* cap on the readings of the wall clock (time.Now / time.Since), in ticks
MaxClock == 1
\* cap on the undecodable lines the backend puts into one stream
MaxBadLines == 1
\* cap on the length of the argument texts enumerated for executeTool
MaxArgLen == 3

\* ---------------------------------------------------------------------------
\* package strings
\* ---------------------------------------------------------------------------

\* unicode.IsSpace restricted to the characters of the model
IsSpace(c) == c \in {" ", "\n", "\t", "\r"}

\* s[a:b]
Slice(s, a, b) == SubSeq(s, a + 1, b)

\* s[i:] starts with sub (i is 0-based)
HasPrefixAt(s, sub, i) ==
    /\ i >= 0
    /\ i + Len(sub) <= Len(s)
    /\ \A k \in 1..Len(sub) : s[i + k] = sub[k]

\* strings.Index: 0-based index of the first occurrence, -1 when absent
Index(s, sub) ==
    LET hits == {i \in 0..Len(s) : HasPrefixAt(s, sub, i)}
    IN  IF hits = {} THEN -1
        ELSE CHOOSE i \in hits : \A j \in hits : i <= j

\* strings.LastIndex: 0-based index of the last occurrence, -1 when absent
LastIndex(s, sub) ==
    LET hits == {i \in 0..Len(s) : HasPrefixAt(s, sub, i)}
    IN  IF hits = {} THEN -1
        ELSE CHOOSE i \in hits : \A j \in hits : i >= j

\* strings.Contains
Contains(s, sub) == Index(s, sub) # -1

\* strings.HasSuffix
HasSuffix(s, sub) == HasPrefixAt(s, sub, Len(s) - Len(sub))

\* strings.TrimSpace: s without its leading and trailing white space
TrimSpace(s) ==
    LET keep == {i \in 1..Len(s) : ~IsSpace(s[i])}
    IN  IF keep = {} THEN <<>>
        ELSE LET lo == CHOOSE i \in keep : \A j \in keep : i <= j
                 hi == CHOOSE i \in keep : \A j \in keep : i >= j
             IN  SubSeq(s, lo, hi)

\* strings.Fields: the number of maximal runs of non-space characters
FieldsLen(s) ==
    Cardinality({i \in 1..Len(s) :
                    /\ ~IsSpace(s[i])
                    /\ (i = 1 \/ IsSpace(s[i - 1]))})

\* ---------------------------------------------------------------------------
\* encoding/json: json.Valid, as a recursive-descent reading of the grammar
\* the scanner of encoding/json accepts.  Every Scan* operator takes the text
\* and a 1-based position and returns the position after what it read, or 0
\* when the text is not well formed there.
\* ---------------------------------------------------------------------------

Digits == {"0", "1", "2", "3", "4", "5", "6", "7", "8", "9"}
HexDigits == Digits \cup {"a", "b", "c", "d", "e", "f", "A", "B", "C", "D", "E", "F"}
JsonSpace == {" ", "\t", "\r", "\n"}
Escapes == {"\"", "\\", "/", "b", "f", "n", "r", "t"}

At(s, i) == IF i >= 1 /\ i <= Len(s) THEN s[i] ELSE "EOF"

RECURSIVE SkipSpace(_, _)
SkipSpace(s, i) == IF At(s, i) \in JsonSpace THEN SkipSpace(s, i + 1) ELSE i

RECURSIVE ScanDigits(_, _)
ScanDigits(s, i) == IF At(s, i) \in Digits THEN ScanDigits(s, i + 1) ELSE i

\* the characters of a string literal after its opening quote
RECURSIVE ScanStringBody(_, _)
ScanStringBody(s, i) ==
    LET c == At(s, i)
    IN  IF c = "EOF" \/ c \in {"\n", "\t", "\r"} THEN 0
        ELSE IF c = "\"" THEN i + 1
        ELSE IF c = "\\" THEN
            IF At(s, i + 1) \in Escapes THEN ScanStringBody(s, i + 2)
            ELSE IF /\ At(s, i + 1) = "u"
                    /\ \A k \in 2..5 : At(s, i + k) \in HexDigits
                 THEN ScanStringBody(s, i + 6)
            ELSE 0
        ELSE ScanStringBody(s, i + 1)

ScanString(s, i) == IF At(s, i) = "\"" THEN ScanStringBody(s, i + 1) ELSE 0

ScanLiteral(s, i, lit) ==
    IF HasPrefixAt(s, lit, i - 1) THEN i + Len(lit) ELSE 0

ScanNumber(s, i) ==
    LET i1 == IF At(s, i) = "-" THEN i + 1 ELSE i
        i2 == IF At(s, i1) = "0" THEN i1 + 1
              ELSE IF At(s, i1) \in Digits THEN ScanDigits(s, i1)
              ELSE 0
        i3 == IF i2 = 0 THEN 0
              ELSE IF At(s, i2) = "."
                   THEN IF At(s, i2 + 1) \in Digits
                        THEN ScanDigits(s, i2 + 1) ELSE 0
              ELSE i2
        e1 == IF At(s, i3 + 1) \in {"+", "-"} THEN i3 + 2 ELSE i3 + 1
    IN  IF i3 = 0 THEN 0
        ELSE IF At(s, i3) \in {"e", "E"}
             THEN IF At(s, e1) \in Digits THEN ScanDigits(s, e1) ELSE 0
        ELSE i3

RECURSIVE ScanValue(_, _), ScanMembers(_, _), ScanElements(_, _)

\* a value, without the white space around it
ScanValue(s, i) ==
    LET c == At(s, i)
    IN  IF c = "{" THEN
            LET j == SkipSpace(s, i + 1)
            IN  IF At(s, j) = "}" THEN j + 1 ELSE ScanMembers(s, j)
        ELSE IF c = "[" THEN
            LET j == SkipSpace(s, i + 1)
            IN  IF At(s, j) = "]" THEN j + 1 ELSE ScanElements(s, j)
        ELSE IF c = "\"" THEN ScanString(s, i)
        ELSE IF c = "t" THEN ScanLiteral(s, i, <<"t", "r", "u", "e">>)
        ELSE IF c = "f" THEN ScanLiteral(s, i, <<"f", "a", "l", "s", "e">>)
        ELSE IF c = "n" THEN ScanLiteral(s, i, <<"n", "u", "l", "l">>)
        ELSE IF c = "-" \/ c \in Digits THEN ScanNumber(s, i)
        ELSE 0

\* "key" : value { , "key" : value } "}" ; i is at the first key
ScanMembers(s, i) ==
    LET k == ScanString(s, i)
        c == IF k = 0 THEN 0 ELSE SkipSpace(s, k)
        v == IF c = 0 \/ At(s, c) # ":" THEN 0
             ELSE ScanValue(s, SkipSpace(s, c + 1))
        e == IF v = 0 THEN 0 ELSE SkipSpace(s, v)
    IN  IF e = 0 THEN 0
        ELSE IF At(s, e) = "}" THEN e + 1
        ELSE IF At(s, e) = "," THEN ScanMembers(s, SkipSpace(s, e + 1))
        ELSE 0

\* value { , value } "]" ; i is at the first value
ScanElements(s, i) ==
    LET v == ScanValue(s, i)
        e == IF v = 0 THEN 0 ELSE SkipSpace(s, v)
    IN  IF e = 0 THEN 0
        ELSE IF At(s, e) = "]" THEN e + 1
        ELSE IF At(s, e) = "," THEN ScanElements(s, SkipSpace(s, e + 1))
        ELSE 0

\* json.Valid: exactly one value, white space allowed around it
JsonValid(s) ==
    LET v == ScanValue(s, SkipSpace(s, 1))
    IN  v # 0 /\ SkipSpace(s, v) = Len(s) + 1

\* ---------------------------------------------------------------------------
\* Texts of the program
\* ---------------------------------------------------------------------------

\* "tool: "
toolPrefix == <<"t","o","o","l",":"," ">>
\* "User: "
UserPrefix == <<"U","s","e","r",":"," ">>
\* "Assistant: "
AssistantPrefix == <<"A","s","s","i","s","t","a","n","t",":"," ">>
\* "System: Tool "
SystemPrefix == <<"S","y","s","t","e","m",":"," ","T","o","o","l"," ">>
\* " executed. Result: "
ExecutedResult == <<" ","e","x","e","c","u","t","e","d","."," ","R","e","s","u","l","t",":"," ">>
\* "Error: Tool '"
ErrToolOpen == <<"E","r","r","o","r",":"," ","T","o","o","l"," ","'">>
\* "' not found."
ErrNotFoundClose == <<"'"," ","n","o","t"," ","f","o","u","n","d",".">>
\* "Error: Tool arguments are not valid JSON: "
ErrNotValidJSON == <<"E","r","r","o","r",":"," ","T","o","o","l"," ","a","r","g","u","m","e","n","t","s"," ","a","r","e"," ","n","o","t"," ","v","a","l","i","d"," ","J","S","O","N",":"," ">>
\* "Error executing tool '"
ErrExecutingOpen == <<"E","r","r","o","r"," ","e","x","e","c","u","t","i","n","g"," ","t","o","o","l"," ","'">>
\* "': "
ErrExecutingSep == <<"'",":"," ">>
\* "Error: Invalid tool call format. Missing '('. Got: "
ErrMissingOpen == <<"E","r","r","o","r",":"," ","I","n","v","a","l","i","d"," ","t","o","o","l"," ","c","a","l","l"," ","f","o","r","m","a","t","."," ","M","i","s","s","i","n","g"," ","'","(","'","."," ","G","o","t",":"," ">>
\* "Error: Invalid tool call format. Missing closing ')'. Got: "
ErrMissingClose == <<"E","r","r","o","r",":"," ","I","n","v","a","l","i","d"," ","t","o","o","l"," ","c","a","l","l"," ","f","o","r","m","a","t","."," ","M","i","s","s","i","n","g"," ","c","l","o","s","i","n","g"," ","'",")","'","."," ","G","o","t",":"," ">>
\* "{}"
EmptyObject == <<"{","}">>

\* the Name fields of ReadFileDefinition, ListFilesDefinition,
\* EditFileDefinition and WriteFileDefinition
ReadFileName == <<"r","e","a","d","_","f","i","l","e">>
ListFilesName == <<"l","i","s","t","_","f","i","l","e","s">>
EditFileName == <<"e","d","i","t","_","f","i","l","e">>
WriteFileName == <<"w","r","i","t","e","_","f","i","l","e">>

\* the tool list main hands to NewAgent; a ToolDefinition is modelled by its
\* Name, its Function by the outcome it returns when it is invoked
availableTools ==
    << [Name |-> ReadFileName], [Name |-> ListFilesName],
       [Name |-> EditFileName], [Name |-> WriteFileName] >>

\* ---------------------------------------------------------------------------
\* extractToolCall
\* ---------------------------------------------------------------------------

\* the first marker of the response
MarkerIndex_First(response) == Index(response, toolPrefix)

\* line 461: where the last "tool: " of the response starts, -1 when none
MarkerIndex(response) == LastIndex(response, toolPrefix)

\* a response is never taken to be without marker
NoMarker_Never(lastIdx) == FALSE

\* line 462: no "tool: " prefix found
NoMarker(lastIdx) == lastIdx = -1

\* the response as a whole
PotentialCall_Whole(response, lastIdx) == response

\* line 467: the part of the response after the marker at lastIdx
PotentialCall(response, lastIdx) ==
    Slice(response, lastIdx + Len(toolPrefix), Len(response))

\* the text after the last marker is the call, whatever its form
extractToolCall_Unchecked(response) ==
    LET lastIdx == MarkerIndex(response)
        potentialCall == PotentialCall(response, lastIdx)
    IN  IF NoMarker(lastIdx) THEN <<>> ELSE TrimSpace(potentialCall)

\* the call text of the response, or the empty string when there is none
extractToolCall(response) ==
    LET lastIdx == MarkerIndex(response)
        potentialCall == PotentialCall(response, lastIdx)
        trimmedCall == TrimSpace(potentialCall)
        openParenIdx == Index(trimmedCall, <<"(">>)
        closeParenIdx == LastIndex(trimmedCall, <<")">>)
        finalCall == Slice(trimmedCall, 0, closeParenIdx + 1)
    IN  IF NoMarker(lastIdx) THEN <<>>
        ELSE IF openParenIdx = -1 THEN <<>>
        ELSE IF closeParenIdx = -1 \/ closeParenIdx < openParenIdx THEN <<>>
        ELSE IF ~Contains(finalCall, <<"(">>) \/ ~HasSuffix(finalCall, <<")">>) THEN <<>>
        ELSE finalCall

\* ---------------------------------------------------------------------------
\* Agent.executeTool
\* ---------------------------------------------------------------------------

\* a lookup that falls back on the first tool of the list
LookupTool_FirstByDefault(agentTools, toolName) ==
    LET hits == {i \in 1..Len(agentTools) : agentTools[i].Name = toolName}
    IN  IF hits = {} THEN 1
        ELSE CHOOSE i \in hits : \A j \in hits : i <= j

\* the index in agentTools of the first tool named toolName, 0 when none
LookupTool(agentTools, toolName) ==
    LET hits == {i \in 1..Len(agentTools) : agentTools[i].Name = toolName}
    IN  IF hits = {} THEN 0
        ELSE CHOOSE i \in hits : \A j \in hits : i <= j

\* the argument text handed on as it is
RawInput_AsWritten(argsStr) == argsStr

\* lines 543-548: rawInput, {} for a call without arguments
RawInput(argsStr) == IF argsStr = <<>> THEN EmptyObject ELSE argsStr

\* no argument text is ever rejected
ArgumentsRejected_Never(argsStr, rawInput) == FALSE

\* line 551: the arguments are rejected
ArgumentsRejected(argsStr, rawInput) == argsStr # <<>> /\ ~JsonValid(rawInput)

\* lines 515-520: the tool name of a call, the text before its first "("
ToolName(toolCallInstruction) ==
    TrimSpace(Slice(toolCallInstruction, 0, Index(toolCallInstruction, <<"(">>)))

\* the argument text as it stands between the parentheses
ArgsStr_Untrimmed(toolCallInstruction) ==
    Slice(toolCallInstruction, Index(toolCallInstruction, <<"(">>) + 1,
          LastIndex(toolCallInstruction, <<")">>))

\* lines 515-527: the argument text of a call, from its first "(" to its
\* last ")"
ArgsStr(toolCallInstruction) ==
    TrimSpace(Slice(toolCallInstruction, Index(toolCallInstruction, <<"(">>) + 1,
                    LastIndex(toolCallInstruction, <<")">>)))

\* the error message alone, without the tool's name
ExecutionError_Bare(toolName, msg) == msg

\* line 563: the text returned for a Function that returned the error msg
ExecutionError(toolName, msg) ==
    ErrExecutingOpen \o toolName \o ErrExecutingSep \o msg

\* the Function's string with the white space around it removed
FunctionReturn_Trimmed(toolName, Function) ==
    IF ~Function.ok THEN ExecutionError(toolName, Function.val)
    ELSE TrimSpace(Function.val)

\* lines 561-565: what executeTool returns once the Function has returned
FunctionReturn(toolName, Function) ==
    IF ~Function.ok THEN ExecutionError(toolName, Function.val)
    ELSE Function.val

\* the argument text is validated before the tool is looked up
executeTool_ArgumentsFirst(agentTools, toolCallInstruction, Function) ==
    LET idxOpenParen == Index(toolCallInstruction, <<"(">>)
        toolName == ToolName(toolCallInstruction)
        idxCloseParen == LastIndex(toolCallInstruction, <<")">>)
        argsStr == ArgsStr(toolCallInstruction)
        toolToExecute == LookupTool(agentTools, toolName)
        found == toolToExecute # 0
        rawInput == RawInput(argsStr)
    IN  IF idxOpenParen = -1 THEN
            [result |-> ErrMissingOpen \o toolCallInstruction, invoked |-> <<>>]
        ELSE IF idxCloseParen = -1 \/ idxCloseParen < idxOpenParen THEN
            [result |-> ErrMissingClose \o toolCallInstruction, invoked |-> <<>>]
        ELSE IF ArgumentsRejected(argsStr, rawInput) THEN
            [result |-> ErrNotValidJSON \o argsStr, invoked |-> <<>>]
        ELSE IF ~found THEN
            [result |-> ErrToolOpen \o toolName \o ErrNotFoundClose, invoked |-> <<>>]
        ELSE
            [result |-> FunctionReturn(toolName, Function),
             invoked |-> <<[tool |-> toolToExecute, input |-> rawInput]>>]

\* executeTool(toolCallInstruction) on the tool list agentTools.  Function is
\* what the tool's Function returns if it is invoked: [ok, val], val being the
\* result string or the error message.  The value is the string returned and
\* the invocations made: a sequence of [tool, input], tool an index of
\* agentTools.
executeTool(agentTools, toolCallInstruction, Function) ==
    LET idxOpenParen == Index(toolCallInstruction, <<"(">>)
        toolName == ToolName(toolCallInstruction)
        idxCloseParen == LastIndex(toolCallInstruction, <<")">>)
        argsStr == ArgsStr(toolCallInstruction)
        toolToExecute == LookupTool(agentTools, toolName)
        found == toolToExecute # 0
        rawInput == RawInput(argsStr)
    IN  IF idxOpenParen = -1 THEN
            [result |-> ErrMissingOpen \o toolCallInstruction, invoked |-> <<>>]
        ELSE IF idxCloseParen = -1 \/ idxCloseParen < idxOpenParen THEN
            [result |-> ErrMissingClose \o toolCallInstruction, invoked |-> <<>>]
        ELSE IF ~found THEN
            [result |-> ErrToolOpen \o toolName \o ErrNotFoundClose, invoked |-> <<>>]
        ELSE IF ArgumentsRejected(argsStr, rawInput) THEN
            [result |-> ErrNotValidJSON \o argsStr, invoked |-> <<>>]
        ELSE
            [result |-> FunctionReturn(toolName, Function),
             invoked |-> <<[tool |-> toolToExecute, input |-> rawInput]>>]

\* ---------------------------------------------------------------------------
\* The environment: user, backend, tools, clock
\* ---------------------------------------------------------------------------

\* the lines getUserMessage can return: "hi" and " Exit"
UserInputs == { <<"h","i">>, <<" ","E","x","i","t">> }

Rec(fragment, done) == [Response |-> fragment, Done |-> done]

\* the streams the backend can answer with, as sequences of OllamaResponse
\* records:  "a ", "b c d" (done)
\*           "tool: list_", "files()" (done)
\*           "tool: nope()" (done)
\*           "tool: read_file({)" (done)
BackendStreams ==
    { << Rec(<<"a"," ">>, FALSE), Rec(<<"b"," ","c"," ","d">>, TRUE) >>,
      << Rec(<<"t","o","o","l",":"," ","l","i","s","t","_">>, FALSE),
         Rec(<<"f","i","l","e","s","(",")">>, TRUE) >>,
      << Rec(<<"t","o","o","l",":"," ","n","o","p","e","(",")">>, TRUE) >>,
      << Rec(<<"t","o","o","l",":"," ","r","e","a","d","_","f","i","l","e","(","{",")">>, TRUE) >> }

\* what a tool's Function can return: ("data", nil) or ("", error "denied")
ToolOutcomes ==
    { [ok |-> TRUE, val |-> <<"d","a","t","a">>],
      [ok |-> FALSE, val |-> <<"d","e","n","i","e","d">>] }

\* ---------------------------------------------------------------------------
\* State
\* ---------------------------------------------------------------------------

VARIABLES
    tools,                        \* Agent.tools
    pc,                           \* where Agent.Run is: "loop" (top of the for),
                                  \* "infer" (before the call of runInference),
                                  \* "post" (runInference, before http.Post),
                                  \* "stream" (runInference, reading the body),
                                  \* "returned" (runInference has returned),
                                  \* "done" (Run has returned)
    conversation,                 \* Run: conversation
    readUserInput,                \* Run: readUserInput
    currentPromptText,            \* Run: currentPromptText
    sessionStartTime,             \* Run: sessionStartTime
    sessionTotalTokens,           \* Run: sessionTotalTokens
    firstTokenReceivedInSession,  \* Run: firstTokenReceivedInSession
    request,                      \* runInference: reqBody
    stream,                       \* the records of resp.Body not yet read
    badLines,                     \* undecodable lines read from this body
    fullResponse,                 \* runInference: fullResponse
    llmResponseContent,           \* Run: llmResponseContent
    err,                          \* Run: err, "" for nil
    clock,                        \* the last reading of the wall clock
    inferences,                   \* runInference calls so far
    stats,                        \* the statistics line of the last response
    log,                          \* history: the operations of Run, in order
    calls,                        \* history: the tool Functions invoked
    arg,                          \* argument of the function under test
    ret                           \* its result

vars == << tools, pc, conversation, readUserInput, currentPromptText,
           sessionStartTime, sessionTotalTokens, firstTokenReceivedInSession,
           request, stream, badLines, fullResponse, llmResponseContent, err,
           clock, inferences, stats, log, calls, arg, ret >>

runVars == << conversation, readUserInput, currentPromptText,
              sessionStartTime, sessionTotalTokens,
              firstTokenReceivedInSession, stats >>

runInferenceVars == << request, stream, badLines, fullResponse,
                       llmResponseContent, err >>

harnessVars == << arg, ret >>

NoValue == [none |-> TRUE]

\* a.systemPrompt of the default agent (first sentence)
systemPrompt == <<"Y","o","u"," ","a","r","e"," ","a"," ","h","e","l","p","f","u","l"," ","A","I"," ","a","s","s","i","s","t","a","n","t",".">>

\* toolsDesc: one line per tool (the description and schema texts left out)
RECURSIVE toolsDesc(_)
toolsDesc(agentTools) ==
    IF agentTools = <<>> THEN <<>>
    ELSE <<"-", " ">> \o Head(agentTools).Name \o <<"\n">> \o toolsDesc(Tail(agentTools))

\* an entry of the history: the operation, the number of turns of the
\* conversation when it started, and its text (the line read, the prompt
\* sent, the string executeTool returned)
Event(op, text) == [op |-> op, turns |-> Len(conversation), text |-> text]

\* the state after NewAgent and the first lines of Run
Init ==
    /\ tools = availableTools
    /\ pc = "loop"
    /\ conversation = <<>>
    /\ readUserInput = TRUE
    /\ currentPromptText = <<>>
    /\ sessionStartTime = 0
    /\ sessionTotalTokens = 0
    /\ firstTokenReceivedInSession = FALSE
    /\ request = NoValue
    /\ stream = <<>>
    /\ badLines = 0
    /\ fullResponse = <<>>
    /\ llmResponseContent = <<>>
    /\ err = ""
    /\ clock = 0
    /\ inferences = 0
    /\ stats = NoValue
    /\ log = <<>>
    /\ calls = <<>>
    /\ arg = NoValue
    /\ ret = NoValue

\* ---------------------------------------------------------------------------
\* Agent.Run, from the top of the loop to the call of runInference
\* ---------------------------------------------------------------------------

\* the user's line starts the conversation anew
GetUserMessageOk_Restarts(userInput) ==
    /\ pc = "loop" /\ readUserInput
    /\ currentPromptText' = userInput
    /\ conversation' = << UserPrefix \o userInput >>
    /\ log' = Append(log, Event("getUserMessage", userInput))
    /\ pc' = "infer"
    /\ UNCHANGED << tools, readUserInput, sessionStartTime, sessionTotalTokens,
                    firstTokenReceivedInSession, stats, runInferenceVars, clock,
                    inferences, calls, harnessVars >>

\* getUserMessage returns (userInput, true): append the User turn
GetUserMessageOk(userInput) ==
    /\ pc = "loop" /\ readUserInput
    /\ currentPromptText' = userInput
    /\ conversation' = Append(conversation, UserPrefix \o userInput)
    /\ log' = Append(log, Event("getUserMessage", userInput))
    /\ pc' = "infer"
    /\ UNCHANGED << tools, readUserInput, sessionStartTime, sessionTotalTokens,
                    firstTokenReceivedInSession, stats, runInferenceVars, clock,
                    inferences, calls, harnessVars >>

\* getUserMessage returns ("", false): break
GetUserMessageEOF ==
    /\ pc = "loop" /\ readUserInput
    /\ pc' = "done"
    /\ log' = Append(log, Event("endOfInput", <<>>))
    /\ UNCHANGED << tools, runVars, runInferenceVars, clock, inferences, calls,
                    harnessVars >>

\* the entry before the last one
PromptAfterTool_Previous(conv) == conv[Len(conv) - 1]

\* line 322: the prompt text of a follow-up, the last entry of the conversation
PromptAfterTool(conv) == conv[Len(conv)]

\* the user is asked once the conversation holds two tool results
ContinueAfterTool_Capped ==
    /\ pc = "loop" /\ ~readUserInput
    /\ IF Cardinality({k \in 1..Len(conversation) :
                          HasPrefixAt(conversation[k], SystemPrefix, 0)}) < 2
       THEN /\ currentPromptText' = PromptAfterTool(conversation)
            /\ pc' = "infer"
            /\ UNCHANGED << readUserInput, log >>
       ELSE /\ readUserInput' = TRUE
            /\ UNCHANGED << currentPromptText, pc, log >>
    /\ UNCHANGED << tools, conversation, sessionStartTime, sessionTotalTokens,
                    firstTokenReceivedInSession, stats, runInferenceVars, clock,
                    inferences, calls, harnessVars >>

\* readUserInput is false, the follow-up after a tool execution
ContinueAfterTool ==
    /\ pc = "loop" /\ ~readUserInput
    /\ IF Len(conversation) > 0
       THEN /\ currentPromptText' = PromptAfterTool(conversation)
            /\ pc' = "infer"
            /\ UNCHANGED << readUserInput, log >>
       ELSE /\ readUserInput' = TRUE
            /\ log' = Append(log, Event("warning", <<>>))
            /\ UNCHANGED << currentPromptText, pc >>
    /\ UNCHANGED << tools, conversation, sessionStartTime, sessionTotalTokens,
                    firstTokenReceivedInSession, stats, runInferenceVars, clock,
                    inferences, calls, harnessVars >>

\* the session timer is read at the start of every inference
CallRunInference_RestartsClock ==
    /\ pc = "infer"
    /\ inferences < MaxInferences
    /\ \E now \in clock..MaxClock : clock' = now /\ sessionStartTime' = now
    /\ request' = [Prompt |-> currentPromptText, Stream |-> TRUE,
                   System |-> systemPrompt \o <<"\n">> \o toolsDesc(tools)]
    /\ inferences' = inferences + 1
    /\ log' = Append(log, Event("runInference", currentPromptText))
    /\ pc' = "post"
    /\ UNCHANGED << tools, conversation, readUserInput, currentPromptText,
                    sessionTotalTokens, firstTokenReceivedInSession, stats,
                    stream, badLines, fullResponse, llmResponseContent, err,
                    calls, harnessVars >>

\* lines 332-356 and 397-413: the session timer is read while no token has
\* been received, then runInference builds reqBody from the prompt text
CallRunInference ==
    /\ pc = "infer"
    /\ inferences < MaxInferences
    /\ IF ~firstTokenReceivedInSession
       THEN \E now \in clock..MaxClock : clock' = now /\ sessionStartTime' = now
       ELSE UNCHANGED << clock, sessionStartTime >>
    /\ request' = [Prompt |-> currentPromptText, Stream |-> TRUE,
                   System |-> systemPrompt \o <<"\n">> \o toolsDesc(tools)]
    /\ inferences' = inferences + 1
    /\ log' = Append(log, Event("runInference", currentPromptText))
    /\ pc' = "post"
    /\ UNCHANGED << tools, conversation, readUserInput, currentPromptText,
                    sessionTotalTokens, firstTokenReceivedInSession, stats,
                    stream, badLines, fullResponse, llmResponseContent, err,
                    calls, harnessVars >>

\* ---------------------------------------------------------------------------
\* Agent.runInference
\* ---------------------------------------------------------------------------

\* return: the deferred resp.Body.Close() drops what was not read
Return(text, kind) ==
    /\ llmResponseContent' = text
    /\ err' = kind
    /\ stream' = <<>>
    /\ badLines' = 0
    /\ pc' = "returned"

\* http.Post fails, or the status is not 200
PostFails(kind) ==
    /\ pc = "post"
    /\ kind \in {"request", "status"}
    /\ Return(<<>>, kind)
    /\ UNCHANGED << tools, runVars, request, fullResponse, clock, inferences,
                    log, calls, harnessVars >>

\* http.Post succeeds with status 200; body is what the backend will send
PostOK(body) ==
    /\ pc = "post"
    /\ stream' = body
    /\ badLines' = 0
    /\ fullResponse' = <<>>
    /\ pc' = "stream"
    /\ UNCHANGED << tools, runVars, request, llmResponseContent, err, clock,
                    inferences, log, calls, harnessVars >>

\* the done field of a record is not looked at
ReadRecord_IgnoresDone ==
    /\ pc = "stream"
    /\ stream # <<>>
    /\ fullResponse' = fullResponse \o Head(stream).Response
    /\ stream' = Tail(stream)
    /\ UNCHANGED << badLines, llmResponseContent, err, pc >>
    /\ UNCHANGED << tools, runVars, request, clock, inferences, log, calls,
                    harnessVars >>

\* the fragment of a record replaces the text accumulated so far
ReadRecord_LastFragment ==
    /\ pc = "stream"
    /\ stream # <<>>
    /\ LET ollResp == Head(stream)
       IN  /\ fullResponse' = ollResp.Response
           /\ IF ollResp.Done
              THEN Return(fullResponse', "")
              ELSE /\ stream' = Tail(stream)
                   /\ UNCHANGED << badLines, llmResponseContent, err, pc >>
    /\ UNCHANGED << tools, runVars, request, clock, inferences, log, calls,
                    harnessVars >>

\* ReadString returns a line that decodes: print and accumulate the
\* fragment, and return the accumulated text if the record is done
ReadRecord ==
    /\ pc = "stream"
    /\ stream # <<>>
    /\ LET ollResp == Head(stream)
       IN  /\ fullResponse' = fullResponse \o ollResp.Response
           /\ IF ollResp.Done
              THEN Return(fullResponse', "")
              ELSE /\ stream' = Tail(stream)
                   /\ UNCHANGED << badLines, llmResponseContent, err, pc >>
    /\ UNCHANGED << tools, runVars, request, clock, inferences, log, calls,
                    harnessVars >>

\* a line that does not decode ends the call with an error after the warning
ReadBadLine_Fails(damaged) ==
    /\ pc = "stream"
    /\ badLines < MaxBadLines
    /\ badLines' = badLines + 1
    /\ IF damaged THEN stream # <<>> ELSE TRUE
    /\ stream' = <<>>
    /\ llmResponseContent' = <<>>
    /\ err' = "read"
    /\ pc' = "returned"
    /\ UNCHANGED << tools, runVars, request, fullResponse, clock, inferences,
                    log, calls, harnessVars >>

\* ReadString returns a line that does not decode: warn and continue.  The
\* line is either noise between two records or a record damaged on the wire
ReadBadLine(damaged) ==
    /\ pc = "stream"
    /\ badLines < MaxBadLines
    /\ badLines' = badLines + 1
    /\ IF damaged
       THEN stream # <<>> /\ stream' = Tail(stream)
       ELSE UNCHANGED stream
    /\ UNCHANGED << tools, runVars, request, fullResponse, llmResponseContent,
                    err, pc, clock, inferences, log, calls, harnessVars >>

\* ReadString returns an error other than io.EOF
ReadFails ==
    /\ pc = "stream"
    /\ Return(<<>>, "read")
    /\ UNCHANGED << tools, runVars, request, fullResponse, clock, inferences,
                    log, calls, harnessVars >>

\* the end of the body before a done record is an error
ReadEOF_Fails ==
    /\ pc = "stream"
    /\ Return(<<>>, "read")
    /\ UNCHANGED << tools, runVars, request, fullResponse, clock, inferences,
                    log, calls, harnessVars >>

\* ReadString returns io.EOF: break, return the accumulated text
ReadEOF ==
    /\ pc = "stream"
    /\ Return(fullResponse, "")
    /\ UNCHANGED << tools, runVars, request, fullResponse, clock, inferences,
                    log, calls, harnessVars >>

\* ---------------------------------------------------------------------------
\* Agent.Run, after runInference has returned (lines 357-392)
\* ---------------------------------------------------------------------------

\* Run returns when the session clock has been running
EndIteration_StopsWhenSlow ==
    /\ currentPromptText' = <<>>
    /\ request' = NoValue
    /\ stream' = <<>>
    /\ badLines' = 0
    /\ fullResponse' = <<>>
    /\ llmResponseContent' = <<>>
    /\ err' = ""
    /\ pc' = IF clock > sessionStartTime THEN "done" ELSE "loop"

\* the variables of one iteration go out of scope at its end
EndIteration ==
    /\ currentPromptText' = <<>>
    /\ request' = NoValue
    /\ stream' = <<>>
    /\ badLines' = 0
    /\ fullResponse' = <<>>
    /\ llmResponseContent' = <<>>
    /\ err' = ""
    /\ pc' = "loop"

\* lines 388-390: float64(total) / seconds as %.2f prints it, in hundredths
\* of a token per second, rounded to the nearest
TokensPerSecond(total, seconds) == (200 * total + seconds) \div (2 * seconds)

\* the tokens of a response are its characters
SessionStats_CountsCharacters(response, now) ==
    LET inferenceTokens == Len(response)
        first == firstTokenReceivedInSession \/ inferenceTokens > 0
        total == sessionTotalTokens + inferenceTokens
        durationSinceFirstToken == now - sessionStartTime
    IN  [ first |-> first,
          total |-> total,
          printed |-> IF first /\ durationSinceFirstToken > 0
                      THEN [Tokens |-> total, Time |-> durationSinceFirstToken,
                            TPS |-> TokensPerSecond(total, durationSinceFirstToken)]
                      ELSE NoValue ]

\* lines 378-392: the session statistics of a response; now is the reading
\* of the clock by time.Since.  The value is the new totals and the
\* statistics line printed, NoValue when none is
SessionStats(response, now) ==
    LET inferenceTokens == FieldsLen(response)
        first == firstTokenReceivedInSession \/ inferenceTokens > 0
        total == sessionTotalTokens + inferenceTokens
        durationSinceFirstToken == now - sessionStartTime
    IN  [ first |-> first,
          total |-> total,
          printed |-> IF first /\ durationSinceFirstToken > 0
                      THEN [Tokens |-> total, Time |-> durationSinceFirstToken,
                            TPS |-> TokensPerSecond(total, durationSinceFirstToken)]
                      ELSE NoValue ]

\* the error report without the reset of readUserInput
HandleError_KeepsFlag ==
    /\ pc = "returned" /\ err # ""
    /\ readUserInput' = readUserInput
    /\ log' = Append(log, Event("inferenceError", fullResponse))
    /\ EndIteration
    /\ UNCHANGED << tools, conversation, sessionStartTime, sessionTotalTokens,
                    firstTokenReceivedInSession, stats, clock, inferences,
                    calls, harnessVars >>

\* the error ends Run instead of the iteration
HandleError_Returns ==
    /\ pc = "returned" /\ err # ""
    /\ readUserInput' = TRUE
    /\ log' = Append(log, Event("inferenceError", fullResponse))
    /\ pc' = "done"
    /\ UNCHANGED << tools, conversation, currentPromptText, sessionStartTime,
                    sessionTotalTokens, firstTokenReceivedInSession, stats,
                    runInferenceVars, clock, inferences, calls, harnessVars >>

\* the words printed before the error are added to the session total
HandleError_CountsPartial ==
    /\ pc = "returned" /\ err # ""
    /\ readUserInput' = TRUE
    /\ sessionTotalTokens' = sessionTotalTokens + FieldsLen(fullResponse)
    /\ log' = Append(log, Event("inferenceError", fullResponse))
    /\ EndIteration
    /\ UNCHANGED << tools, conversation, sessionStartTime,
                    firstTokenReceivedInSession, stats, clock, inferences,
                    calls, harnessVars >>

\* err != nil: report, readUserInput = true, continue.  The history entry
\* carries the text that had been accumulated (and printed) before the error
HandleError ==
    /\ pc = "returned" /\ err # ""
    /\ readUserInput' = TRUE
    /\ log' = Append(log, Event("inferenceError", fullResponse))
    /\ EndIteration
    /\ UNCHANGED << tools, conversation, sessionStartTime, sessionTotalTokens,
                    firstTokenReceivedInSession, stats, clock, inferences,
                    calls, harnessVars >>

\* a turn that names the call and leaves its result out
ToolResultTurn_NoResult(toolCall, toolResult) ==
    SystemPrefix \o toolCall \o ExecutedResult

\* line 370: the turn that carries the result of a tool execution
ToolResultTurn(toolCall, toolResult) ==
    SystemPrefix \o toolCall \o ExecutedResult \o toolResult

\* the two turns in the other order
ToolCallTurns_ResultFirst(response, toolCall, toolResult) ==
    << ToolResultTurn(toolCall, toolResult), AssistantPrefix \o response >>

\* lines 369-370: the turns appended after a tool execution
ToolCallTurns(response, toolCall, toolResult) ==
    << AssistantPrefix \o response, ToolResultTurn(toolCall, toolResult) >>

\* the user is asked after every response
ReadUserInputAfter_Always(toolCall) == TRUE

\* the user is never asked after a response
ReadUserInputAfter_Never(toolCall) == FALSE

\* lines 371 and 374: readUserInput after a response, false after a tool call
ReadUserInputAfter(toolCall) == toolCall = <<>>

\* the response is handled and a tool execution takes the first tool off the
\* list
HandleResponse_ConsumesTool(Function, now) ==
    /\ pc = "returned" /\ err = ""
    /\ now \in clock..MaxClock
    /\ LET toolCall == extractToolCall(llmResponseContent)
           executed == executeTool(tools, toolCall, Function)
           toolResult == executed.result
           st == SessionStats(llmResponseContent, now)
       IN  /\ IF toolCall # <<>>
              THEN /\ conversation' = conversation \o
                         ToolCallTurns(llmResponseContent, toolCall, toolResult)
                   /\ calls' = calls \o executed.invoked
                   /\ log' = Append(log, Event("executeTool", toolResult))
              ELSE /\ conversation' =
                         Append(conversation, AssistantPrefix \o llmResponseContent)
                   /\ calls' = calls
                   /\ log' = Append(log, Event("response", <<>>))
           /\ readUserInput' = ReadUserInputAfter(toolCall)
           /\ stats' = st.printed
           /\ firstTokenReceivedInSession' = st.first
           /\ sessionTotalTokens' = st.total
           /\ clock' = IF st.first THEN now ELSE clock
    /\ EndIteration
    /\ tools' = IF extractToolCall(llmResponseContent) = <<>> THEN tools
                ELSE Tail(tools)
    /\ UNCHANGED << sessionStartTime, inferences, harnessVars >>

\* the call extracted from the response is executed twice
HandleResponse_ExecutesTwice(Function, now) ==
    /\ pc = "returned" /\ err = ""
    /\ now \in clock..MaxClock
    /\ LET toolCall == extractToolCall(llmResponseContent)
           executed == executeTool(tools, toolCall, Function)
           toolResult == executed.result
           st == SessionStats(llmResponseContent, now)
       IN  /\ IF toolCall # <<>>
              THEN /\ conversation' = conversation \o
                         ToolCallTurns(llmResponseContent, toolCall, toolResult)
                   /\ calls' = calls \o executed.invoked \o executed.invoked
                   /\ log' = Append(log, Event("executeTool", toolResult))
              ELSE /\ conversation' =
                         Append(conversation, AssistantPrefix \o llmResponseContent)
                   /\ calls' = calls
                   /\ log' = Append(log, Event("response", <<>>))
           /\ readUserInput' = ReadUserInputAfter(toolCall)
           /\ stats' = st.printed
           /\ firstTokenReceivedInSession' = st.first
           /\ sessionTotalTokens' = st.total
           /\ clock' = IF st.first THEN now ELSE clock
    /\ EndIteration
    /\ UNCHANGED << tools, sessionStartTime, inferences, harnessVars >>

\* err == nil: extract the tool call, execute it if there is one, append the
\* turns, update the statistics.  Function is what the tool's Function
\* returns if executeTool invokes it, now the clock read by time.Since
HandleResponse(Function, now) ==
    /\ pc = "returned" /\ err = ""
    /\ now \in clock..MaxClock
    /\ LET toolCall == extractToolCall(llmResponseContent)
           executed == executeTool(tools, toolCall, Function)
           toolResult == executed.result
           st == SessionStats(llmResponseContent, now)
       IN  /\ IF toolCall # <<>>
              THEN /\ conversation' = conversation \o
                         ToolCallTurns(llmResponseContent, toolCall, toolResult)
                   /\ calls' = calls \o executed.invoked
                   /\ log' = Append(log, Event("executeTool", toolResult))
              ELSE /\ conversation' =
                         Append(conversation, AssistantPrefix \o llmResponseContent)
                   /\ calls' = calls
                   /\ log' = Append(log, Event("response", <<>>))
           /\ readUserInput' = ReadUserInputAfter(toolCall)
           /\ stats' = st.printed
           /\ firstTokenReceivedInSession' = st.first
           /\ sessionTotalTokens' = st.total
           /\ clock' = IF st.first THEN now ELSE clock
    /\ EndIteration
    /\ UNCHANGED << tools, sessionStartTime, inferences, harnessVars >>

\* ---------------------------------------------------------------------------
\* The session
\* ---------------------------------------------------------------------------

Next ==
    \/ \E userInput \in UserInputs : GetUserMessageOk(userInput)
    \/ GetUserMessageEOF
    \/ ContinueAfterTool
    \/ CallRunInference
    \/ \E kind \in {"request", "status"} : PostFails(kind)
    \/ \E body \in BackendStreams : PostOK(body)
    \/ ReadRecord
    \/ \E damaged \in BOOLEAN : ReadBadLine(damaged)
    \/ ReadFails
    \/ ReadEOF
    \/ HandleError
    \/ \E Function \in ToolOutcomes, now \in 0..MaxClock :
          HandleResponse(Function, now)

Spec == Init /\ [][Next]_vars

\* ---------------------------------------------------------------------------
\* The session when the loop, the backend and the tools make progress
\* ---------------------------------------------------------------------------

\* the steps Run takes without waiting for anything
LoopStep == ContinueAfterTool \/ CallRunInference

\* the steps of runInference that wait for the backend: the answer to the
\* request and the lines of the body, up to its end
BackendStep ==
    \/ \E kind \in {"request", "status"} : PostFails(kind)
    \/ \E body \in BackendStreams : PostOK(body)
    \/ ReadRecord
    \/ \E damaged \in BOOLEAN : ReadBadLine(damaged)
    \/ ReadFails
    \/ ReadEOF

\* the steps of Run after runInference has returned, which take it back to
\* the top of the loop: those of HandleError and of HandleResponse, the
\* latter ending when the tool's Function has returned
ResponseStep == pc = "returned" /\ pc' = "loop"

\* the session of Spec where Run is not suspended for ever, the backend
\* answers every request with an error or a body that ends, and every
\* Function returns.  The user may never enter a line
SpecLive ==
    /\ Init
    /\ [][Next]_vars
    /\ WF_vars(LoopStep)
    /\ WF_vars(BackendStep)
    /\ WF_pc(ResponseStep)

\* ---------------------------------------------------------------------------
\* Agent.executeTool on its own: the calls it can be handed
\* ---------------------------------------------------------------------------

\* the characters argument texts are made of
ArgAlphabet == {"{", "}", " ", "1", "\"", "(", ")"}

\* every text over ArgAlphabet of at most MaxArgLen characters
ArgTexts == UNION {[1..n -> ArgAlphabet] : n \in 0..MaxArgLen}

\* the names as written before the parenthesis: read_file, list_files,
\* " list_files " , list_file, nope and the empty name
CalledNames ==
    { ReadFileName, ListFilesName,
      <<" ">> \o ListFilesName \o <<" ">>,
      <<"l","i","s","t","_","f","i","l","e">>,
      <<"n","o","p","e">>,
      <<>> }

\* name(args): the call as written, with the name and the argument text it
\* was written from
WrittenCall(name, args) ==
    [call |-> name \o <<"(">> \o args \o <<")">>,
     name |-> name, args |-> args, wellFormed |-> TRUE]

\* texts that are not of the form name(args): no "(", or no ")" after it
MalformedCalls ==
    { [call |-> c, name |-> <<>>, args |-> <<>>, wellFormed |-> FALSE] :
        c \in { <<>>, ListFilesName, ListFilesName \o <<"(">>,
                <<")">> \o ListFilesName \o <<"(">>,
                ListFilesName \o <<")">> } }

ToolNames(agentTools) == {agentTools[i].Name : i \in 1..Len(agentTools)}

InitDispatch ==
    /\ tools = availableTools
    /\ pc = "dispatch"
    /\ conversation = <<>>
    /\ readUserInput = TRUE
    /\ currentPromptText = <<>>
    /\ sessionStartTime = 0
    /\ sessionTotalTokens = 0
    /\ firstTokenReceivedInSession = FALSE
    /\ request = NoValue
    /\ stream = <<>>
    /\ badLines = 0
    /\ fullResponse = <<>>
    /\ llmResponseContent = <<>>
    /\ err = ""
    /\ clock = 0
    /\ inferences = 0
    /\ stats = NoValue
    /\ log = <<>>
    /\ calls = <<>>
    /\ arg \in {WrittenCall(name, args) : name \in CalledNames, args \in ArgTexts}
                  \cup MalformedCalls
    /\ ret = NoValue

\* what a tool's Function can return to executeTool: the outcomes of
\* ToolOutcomes, a result with white space around it (" data\n"), an empty
\* result and an error with white space in its message ("no such file ")
DispatchOutcomes ==
    ToolOutcomes \cup
    { [ok |-> TRUE, val |-> <<" ","d","a","t","a","\n">>],
      [ok |-> TRUE, val |-> <<>>],
      [ok |-> FALSE, val |-> <<"n","o"," ","s","u","c","h"," ","f","i","l","e"," ">>] }

\* a.executeTool(arg.call), the tool's Function returning Function if invoked;
\* ret holds the string returned, the invocations made and, when the Function
\* was invoked, what it returned
Dispatch(Function) ==
    /\ pc = "dispatch"
    /\ LET executed == executeTool(tools, arg.call, Function)
       IN  ret' = [result |-> executed.result,
                   invoked |-> executed.invoked,
                   Function |-> IF executed.invoked # <<>> THEN Function
                                ELSE NoValue]
    /\ pc' = "dispatched"
    /\ UNCHANGED << tools, runVars, runInferenceVars, clock, inferences, log,
                    calls, arg >>

NextDispatch == \E Function \in DispatchOutcomes : Dispatch(Function)

SpecDispatch == InitDispatch /\ [][NextDispatch]_vars

\* ---------------------------------------------------------------------------
\* extractToolCall and the handling of a response: the responses runInference
\* can return
\* ---------------------------------------------------------------------------

\* the number of "tool: " markers a response has at most
MaxMarkers == 2

\* name(args) followed by after: a text written after a marker, with the
\* name and the argument text it was written from
WrittenTail(name, args, after) ==
    [text |-> name \o <<"(">> \o args \o <<")">> \o after,
     name |-> name, args |-> args, wellFormed |-> TRUE]

\* a text after a marker that is not of the form name(args)
MalformedTail(text) ==
    [text |-> text, name |-> <<>>, args |-> <<>>, wellFormed |-> FALSE]

\* {"path":"a.txt"}
PathArgument == <<"{","\"","p","a","t","h","\"",":","\"","a",".","t","x","t","\"","}">>

\* the texts after a marker: read_file({"path":"a.txt"}), x(1) and a blank,
\* list_files() on a new line followed by " ok", read_file ( {} ) with white
\* space around the name and the argument text, f(a)b) and f((1) with a
\* parenthesis in the argument text, ({}) without a name; and the empty text,
\* read_file, read_file({} and a)b(c, which are not calls
Tails ==
    { WrittenTail(ReadFileName, PathArgument, <<>>),
      WrittenTail(<<"x">>, <<"1">>, <<" ">>),
      WrittenTail(<<" ", "\n">> \o ListFilesName, <<>>, <<" ", "o", "k">>),
      WrittenTail(ReadFileName \o <<" ">>, <<" ", "{", "}", " ">>, <<" ">>),
      WrittenTail(<<"f">>, <<"a", ")", "b">>, <<"\n">>),
      WrittenTail(<<"f">>, <<"(", "1">>, <<>>),
      WrittenTail(<<>>, EmptyObject, <<>>),
      MalformedTail(<<>>),
      MalformedTail(ReadFileName),
      MalformedTail(ReadFileName \o <<"(", "{", "}">>),
      MalformedTail(<<"a", ")", "b", "(", "c">>) }

\* the texts before the first marker: nothing, and "look at f(1) "
Preambles == { <<>>, <<"l","o","o","k"," ","a","t"," ","f","(","1",")"," ">> }

\* the text of the markers with the tails after them
RECURSIVE MarkedText(_)
MarkedText(tails) ==
    IF tails = <<>> THEN <<>>
    ELSE toolPrefix \o Head(tails).text \o MarkedText(Tail(tails))

\* the responses: a preamble and at most MaxMarkers markers, each with the
\* text written after it
WrittenResponses ==
    { [text |-> preamble \o MarkedText(tails), preamble |-> preamble,
       tails |-> tails] :
        preamble \in Preambles,
        tails \in UNION {[1..k -> Tails] : k \in 0..MaxMarkers} }

\* Run after the user's line "hi", when runInference has returned the
\* response arg.text without error
InitExtract ==
    /\ tools = availableTools
    /\ pc = "returned"
    /\ conversation = << UserPrefix \o <<"h","i">> >>
    /\ readUserInput = TRUE
    /\ currentPromptText = <<"h","i">>
    /\ sessionStartTime = 0
    /\ sessionTotalTokens = 0
    /\ firstTokenReceivedInSession = FALSE
    /\ request = [Prompt |-> <<"h","i">>, Stream |-> TRUE,
                  System |-> systemPrompt \o <<"\n">> \o toolsDesc(availableTools)]
    /\ stream = <<>>
    /\ badLines = 0
    /\ arg \in WrittenResponses
    /\ fullResponse = arg.text
    /\ llmResponseContent = arg.text
    /\ err = ""
    /\ clock = 0
    /\ inferences = 1
    /\ stats = NoValue
    /\ log = << [op |-> "getUserMessage", turns |-> 0, text |-> <<"h","i">>],
                [op |-> "runInference", turns |-> 1, text |-> <<"h","i">>] >>
    /\ calls = <<>>
    /\ ret = NoValue

\* extractToolCall(llmResponseContent) on its own, and the name and the
\* argument text executeTool reads from the call
ParseResponse ==
    /\ pc = "returned"
    /\ LET toolCall == extractToolCall(llmResponseContent)
       IN  ret' = [toolCall |-> toolCall,
                   toolName |-> ToolName(toolCall),
                   argsStr |-> ArgsStr(toolCall)]
    /\ pc' = "parsed"
    /\ UNCHANGED << tools, runVars, runInferenceVars, clock, inferences, log,
                    calls, arg >>

NextExtract ==
    \/ ParseResponse
    \/ \E Function \in ToolOutcomes, now \in 0..MaxClock :
          HandleResponse(Function, now)

SpecExtract == InitExtract /\ [][NextExtract]_vars

\* ---------------------------------------------------------------------------
\* Agent.runInference on its own: the reading of the stream
\* ---------------------------------------------------------------------------

\* the number of records a response body has at most
MaxRecords == 3

\* the fragments of the records: "a ", "b " and "c"
StreamFragments == { <<"a", " ">>, <<"b", " ">>, <<"c">> }

\* the bodies: one to MaxRecords records, one of them done (records can
\* follow it) or none (the stream then ends without a done record)
StreamBodies ==
    { [i \in 1..Len(fragments) |-> Rec(fragments[i], i = doneAt)] :
        fragments \in UNION {[1..n -> StreamFragments] : n \in 1..MaxRecords},
        doneAt \in 0..MaxRecords }

\* runInference after the user's line "hi", when http.Post has returned
\* status 200 and the body arg.body is about to be read
InitStream ==
    /\ tools = availableTools
    /\ pc = "stream"
    /\ conversation = << UserPrefix \o <<"h","i">> >>
    /\ readUserInput = TRUE
    /\ currentPromptText = <<"h","i">>
    /\ sessionStartTime = 0
    /\ sessionTotalTokens = 0
    /\ firstTokenReceivedInSession = FALSE
    /\ request = [Prompt |-> <<"h","i">>, Stream |-> TRUE,
                  System |-> systemPrompt \o <<"\n">> \o toolsDesc(availableTools)]
    /\ arg \in {[body |-> body] : body \in StreamBodies}
    /\ stream = arg.body
    /\ badLines = 0
    /\ fullResponse = <<>>
    /\ llmResponseContent = <<>>
    /\ err = ""
    /\ clock = 0
    /\ inferences = 1
    /\ stats = NoValue
    /\ log = << [op |-> "getUserMessage", turns |-> 0, text |-> <<"h","i">>],
                [op |-> "runInference", turns |-> 1, text |-> <<"h","i">>] >>
    /\ calls = <<>>
    /\ ret = NoValue

NextStream ==
    \/ ReadRecord
    \/ \E damaged \in BOOLEAN : ReadBadLine(damaged)
    \/ ReadFails
    \/ ReadEOF

SpecStream == InitStream /\ [][NextStream]_vars

\* ---------------------------------------------------------------------------
\* One exchange of Agent.Run: the stream is read to its done record and the
\* response is handled, in a session that has or has not seen a token yet
\* ---------------------------------------------------------------------------

\* the number of records the backend sends a response in at most
MaxFragments == 3

\* the seconds a session can have started before the exchange
MaxElapsed == 2

\* the tokens of the earlier responses of a session that has seen a token
EarlierTokens == 3

\* the fragments text is sent in when it is cut at the positions cuts,
\* starting at position from
RECURSIVE SplitAt(_, _, _)
SplitAt(text, cuts, from) ==
    IF cuts = {} THEN << Slice(text, from, Len(text)) >>
    ELSE LET c == CHOOSE x \in cuts : \A y \in cuts : x <= y
         IN  << Slice(text, from, c) >> \o SplitAt(text, cuts \ {c}, c)

\* the responses of the backend, with the call written in them (the empty
\* string when there is none) and the positions they can be cut at:
\*   "a b c d", cut into "a ", "b c ", "d"
\*   "tool: list_files()", cut in the marker, after it, in the name, before
\*       and after "("
\*   "tool: read_file({"path":"a.txt"})", cut in the marker, in the name,
\*       before "(" and in the arguments
\*   "tool: x(1) tool: list_files()", cut after x(1) and in the second marker
\*   the empty response
ExchangeTexts ==
    { [text |-> <<"a"," ","b"," ","c"," ","d">>, call |-> <<>>, cuts |-> {2, 6}],
      [text |-> toolPrefix \o ListFilesName \o <<"(", ")">>,
       call |-> ListFilesName \o <<"(", ")">>, cuts |-> {2, 6, 11, 16, 17}],
      [text |-> toolPrefix \o ReadFileName \o <<"(">> \o PathArgument \o <<")">>,
       call |-> ReadFileName \o <<"(">> \o PathArgument \o <<")">>,
       cuts |-> {3, 10, 15, 22}],
      [text |-> toolPrefix \o <<"x", "(", "1", ")", " ">> \o toolPrefix
                    \o ListFilesName \o <<"(", ")">>,
       call |-> ListFilesName \o <<"(", ")">>, cuts |-> {10, 14}],
      [text |-> <<>>, call |-> <<>>, cuts |-> {}] }

\* the session before the exchange: no token seen yet, the clock read when
\* the inference started (lines 349-351); or EarlierTokens tokens seen in a
\* session whose clock was started up to MaxElapsed seconds ago
SessionStates ==
    { [first |-> FALSE, total |-> 0, start |-> 0] } \cup
    { [first |-> TRUE, total |-> EarlierTokens, start |-> 0 - e] :
        e \in 0..MaxElapsed }

\* the exchanges: a response cut into at most MaxFragments fragments, and
\* the session it is received in
Exchanges ==
    UNION { { [text |-> t.text, call |-> t.call,
               fragments |-> SplitAt(t.text, cuts, 0), session |-> session] :
                cuts \in {c \in SUBSET t.cuts : Cardinality(c) < MaxFragments},
                session \in SessionStates } :
            t \in ExchangeTexts }

\* the records of a response sent in fragments, the last one done
RecordsOf(fragments) ==
    [i \in 1..Len(fragments) |-> Rec(fragments[i], i = Len(fragments))]

\* runInference after the user's line "hi", when http.Post has returned
\* status 200 and the records of arg.fragments are about to be read
InitExchange ==
    /\ tools = availableTools
    /\ pc = "stream"
    /\ conversation = << UserPrefix \o <<"h","i">> >>
    /\ readUserInput = TRUE
    /\ currentPromptText = <<"h","i">>
    /\ arg \in Exchanges
    /\ sessionStartTime = arg.session.start
    /\ sessionTotalTokens = arg.session.total
    /\ firstTokenReceivedInSession = arg.session.first
    /\ request = [Prompt |-> <<"h","i">>, Stream |-> TRUE,
                  System |-> systemPrompt \o <<"\n">> \o toolsDesc(availableTools)]
    /\ stream = RecordsOf(arg.fragments)
    /\ badLines = 0
    /\ fullResponse = <<>>
    /\ llmResponseContent = <<>>
    /\ err = ""
    /\ clock = 0
    /\ inferences = 1
    /\ stats = NoValue
    /\ log = << [op |-> "getUserMessage", turns |-> 0, text |-> <<"h","i">>],
                [op |-> "runInference", turns |-> 1, text |-> <<"h","i">>] >>
    /\ calls = <<>>
    /\ ret = NoValue

NextExchange ==
    \/ ReadRecord
    \/ \E Function \in ToolOutcomes, now \in 0..MaxClock :
          HandleResponse(Function, now)

SpecExchange == InitExchange /\ [][NextExchange]_vars

\* ---------------------------------------------------------------------------
\* One exchange whose body can end before its done record
\* ---------------------------------------------------------------------------

\* the exchanges of SpecExchange, the body ending after any of the records:
\* ReadString returns io.EOF in place of the next line
NextEndOfStream ==
    \/ ReadRecord
    \/ ReadEOF
    \/ \E Function \in ToolOutcomes, now \in 0..MaxClock :
          HandleResponse(Function, now)

SpecEndOfStream == InitExchange /\ [][NextEndOfStream]_vars

\* ---------------------------------------------------------------------------
\* NewAgent: the tool lists an agent can be made with
\* ---------------------------------------------------------------------------

\* lines 285-292: the tools field of the Agent NewAgent returns
NewAgent(agentTools) == agentTools

\* the lists handed to NewAgent: the list of main, a list with read_file
\* twice, the list of main followed by a second list_files, and the empty
\* list
ToolLists ==
    { availableTools,
      << [Name |-> ReadFileName], [Name |-> ReadFileName] >>,
      availableTools \o << [Name |-> ListFilesName] >>,
      <<>> }

\* the argument texts of the calls made at startup: none, {}, 1 and {
StartupArgTexts == { <<>>, EmptyObject, <<"1">>, <<"{">> }

\* before NewAgent: the list it will be given and the call the agent will
\* be handed once it runs
InitStartup ==
    /\ tools = <<>>
    /\ pc = "start"
    /\ conversation = <<>>
    /\ readUserInput = TRUE
    /\ currentPromptText = <<>>
    /\ sessionStartTime = 0
    /\ sessionTotalTokens = 0
    /\ firstTokenReceivedInSession = FALSE
    /\ request = NoValue
    /\ stream = <<>>
    /\ badLines = 0
    /\ fullResponse = <<>>
    /\ llmResponseContent = <<>>
    /\ err = ""
    /\ clock = 0
    /\ inferences = 0
    /\ stats = NoValue
    /\ log = <<>>
    /\ calls = <<>>
    /\ arg \in { [call |-> WrittenCall(name, args).call, name |-> name,
                   args |-> args, wellFormed |-> TRUE, toolList |-> toolList] :
                    name \in CalledNames, args \in StartupArgTexts,
                    toolList \in ToolLists }
    /\ ret = NoValue

\* main calls NewAgent with the list and runs the agent
Startup ==
    /\ pc = "start"
    /\ tools' = NewAgent(arg.toolList)
    /\ pc' = "dispatch"
    /\ UNCHANGED << runVars, runInferenceVars, clock, inferences, log, calls,
                    harnessVars >>

NextStartup ==
    \/ Startup
    \/ \E Function \in ToolOutcomes : Dispatch(Function)

SpecStartup == InitStartup /\ [][NextStartup]_vars

\* ---------------------------------------------------------------------------
\* Properties of executeTool
\* ---------------------------------------------------------------------------

Dispatched == pc = "dispatched" /\ arg.wellFormed

Registered == TrimSpace(arg.name) \in ToolNames(tools)

\* the one invocation of the tool named by the call, with the given input
Invocation(input) ==
    << [tool |-> LookupTool(tools, TrimSpace(arg.name)), input |-> input] >>

\* C8: for every call name(args) whose trimmed name is not the Name of any
\* tool of the agent, executeTool returns exactly
\* "Error: Tool '<name>' not found." and invokes no Function
C8_NotFound ==
    (Dispatched /\ ~Registered) =>
        /\ ret.result = ErrToolOpen \o TrimSpace(arg.name) \o ErrNotFoundClose
        /\ ret.invoked = <<>>

C8_Witness ==
    /\ Dispatched /\ ~Registered
    /\ arg.name = <<"n","o","p","e">>
    /\ arg.args = <<"{", "}">>

\* C9: for every call name() of a registered tool, executeTool invokes the
\* tool's Function exactly once, with the input {}, and the string returned
\* is not the "Tool arguments are not valid JSON" error
C9_EmptyArguments ==
    (Dispatched /\ Registered /\ arg.args = <<>>) =>
        /\ ret.invoked = Invocation(EmptyObject)
        /\ ~HasPrefixAt(ret.result, ErrNotValidJSON, 0)

C9_Witness ==
    /\ Dispatched /\ Registered /\ arg.args = <<>>
    /\ arg.name = ListFilesName
    /\ ret.result = <<"d","a","t","a">>

\* C10 as stated: for every call of a registered tool whose argument text is
\* non-empty and not valid JSON, executeTool returns
\* "Error: Tool arguments are not valid JSON: <argument text>" and invokes no
\* Function
C10_InvalidJSON_AsStated ==
    (Dispatched /\ Registered /\ arg.args # <<>> /\ ~JsonValid(arg.args)) =>
        /\ ret.result = ErrNotValidJSON \o arg.args
        /\ ret.invoked = <<>>

\* C10 amended: for every call of a registered tool whose argument text,
\* once trimmed of surrounding white space, is non-empty and not valid JSON,
\* executeTool returns "Error: Tool arguments are not valid JSON: " followed
\* by the trimmed argument text and invokes no Function
C10_InvalidJSON ==
    (Dispatched /\ Registered /\ TrimSpace(arg.args) # <<>>
                /\ ~JsonValid(TrimSpace(arg.args))) =>
        /\ ret.result = ErrNotValidJSON \o TrimSpace(arg.args)
        /\ ret.invoked = <<>>

C10_Witness ==
    /\ Dispatched /\ Registered
    /\ arg.args = <<" ", "{", " ">>
    /\ ret.result = ErrNotValidJSON \o <<"{">>

\* the argument text of the call passes executeTool's validation: trimmed of
\* surrounding white space it is empty or valid JSON
ArgumentsAccepted ==
    TrimSpace(arg.args) = <<>> \/ JsonValid(TrimSpace(arg.args))

\* C11: for every call of a registered tool whose arguments pass validation,
\* the Function is invoked, and when it returns an error executeTool returns
\* the string "Error executing tool '<name>': <message>", <name> the trimmed
\* name of the call and <message> the Function's error message
C11_FunctionError ==
    (Dispatched /\ Registered /\ ArgumentsAccepted) =>
        /\ ret.invoked # <<>>
        /\ ~ret.Function.ok =>
               ret.result = ErrExecutingOpen \o TrimSpace(arg.name)
                                \o <<"'", ":", " ">> \o ret.Function.val

C11_Witness ==
    /\ Dispatched /\ Registered /\ ArgumentsAccepted
    /\ arg.name = ReadFileName
    /\ arg.args = <<"{", "}">>
    /\ ret.invoked # <<>>
    /\ ret.Function = [ok |-> FALSE, val |-> <<"d","e","n","i","e","d">>]
    /\ ret.result = ErrExecutingOpen \o ReadFileName \o <<"'", ":", " ">>
                        \o <<"d","e","n","i","e","d">>

\* C12: for every call of a registered tool whose arguments pass validation,
\* when the Function returns a string without an error executeTool returns
\* exactly that string, white space included
C12_FunctionSuccess ==
    (Dispatched /\ Registered /\ ArgumentsAccepted /\ ret.invoked # <<>>) =>
        (ret.Function.ok => ret.result = ret.Function.val)

C12_Witness ==
    /\ Dispatched /\ Registered /\ ArgumentsAccepted
    /\ arg.args = <<"{", "}">>
    /\ ret.invoked # <<>>
    /\ ret.Function = [ok |-> TRUE, val |-> <<" ","d","a","t","a","\n">>]
    /\ ret.result = <<" ","d","a","t","a","\n">>

\* ---------------------------------------------------------------------------
\* Properties of Agent.Run
\* ---------------------------------------------------------------------------

\* the operations of Run so far
Ops == log

IsUserTurn(turn) == HasPrefixAt(turn, UserPrefix, 0)
IsAssistantTurn(turn) == HasPrefixAt(turn, AssistantPrefix, 0)
IsToolResultTurn(turn) == HasPrefixAt(turn, SystemPrefix, 0)

\* the text of a turn, without the role in front of it
TurnText(turn) ==
    IF IsUserTurn(turn) THEN Slice(turn, Len(UserPrefix), Len(turn))
    ELSE IF IsAssistantTurn(turn) THEN Slice(turn, Len(AssistantPrefix), Len(turn))
    ELSE turn

\* strings.ToLower on the letters of the model
ToLower(s) ==
    [i \in 1..Len(s) |->
        CASE s[i] = "E" -> "e" [] s[i] = "X" -> "x" [] s[i] = "I" -> "i"
          [] s[i] = "T" -> "t" [] s[i] = "H" -> "h" [] OTHER -> s[i]]

\* the literal exit, case-insensitive, surrounding white space trimmed
IsExit(line) == ToLower(TrimSpace(line)) = <<"e","x","i","t">>

\* the strings a tool's Function returns on success
SuccessTexts == {o.val : o \in {x \in ToolOutcomes : x.ok}}

\* C1: in every run, the operation that follows an executeTool is the next
\* runInference, never a read of user input; and when the tool result has
\* been appended the loop is set to go on without reading the user
C1_NoInputAfterToolResult ==
    LET ops == Ops
    IN  /\ \A i \in 1..Len(ops) :
              (ops[i].op = "executeTool" /\ i < Len(ops))
                  => ops[i + 1].op = "runInference"
        /\ (Len(ops) > 0 /\ ops[Len(ops)].op = "executeTool")
              => /\ ~readUserInput
                 /\ IsToolResultTurn(conversation[Len(conversation)])

C1_Witness ==
    LET ops == Ops
    IN  \E i \in 1..Len(ops) :
            /\ ops[i].op = "executeTool"
            /\ i < Len(ops)
            /\ ops[i + 1].op = "runInference"

\* the run starts with one user input, a response with a tool call and a
\* tool that succeeds
C2_Scenario(ops) ==
    /\ Len(ops) >= 3
    /\ ops[1].op = "getUserMessage"
    /\ ops[2].op = "runInference"
    /\ ops[3].op = "executeTool"
    /\ ops[3].text \in SuccessTexts

\* C2: when the run starts with one user input, a response with a tool call
\* and a successful tool, the next operation is the second inference; and if
\* its response is plain text the conversation then is User, Assistant (with
\* the call), ToolResult, Assistant (no call), and the next operation is the
\* second read of user input, made when the conversation has these four turns
C2_EndToEnd ==
    LET ops == Ops
    IN  C2_Scenario(ops) =>
          /\ Len(ops) >= 4 => ops[4].op = "runInference"
          /\ (Len(ops) >= 5 /\ ops[5].op = "response") =>
                /\ Len(conversation) >= 4
                /\ IsUserTurn(conversation[1])
                /\ IsAssistantTurn(conversation[2])
                /\ extractToolCall(TurnText(conversation[2])) # <<>>
                /\ IsToolResultTurn(conversation[3])
                /\ IsAssistantTurn(conversation[4])
                /\ extractToolCall(TurnText(conversation[4])) = <<>>
                /\ Len(ops) = 5 => Len(conversation) = 4
                /\ Len(ops) >= 6 =>
                      /\ ops[6].op \in {"getUserMessage", "endOfInput"}
                      /\ ops[6].turns = 4

C2_Witness ==
    LET ops == Ops
    IN  /\ C2_Scenario(ops)
        /\ Len(ops) = 6
        /\ ops[5].op = "response"
        /\ ops[6].op = "getUserMessage"
        /\ Len(conversation) = 5

\* the request in flight carries the turn: its text is part of the prompt
PromptCarries(turn) ==
    \/ Contains(request.Prompt, turn)
    \/ Contains(request.Prompt, TurnText(turn))

\* C3: every inference request carries a prompt built from the full
\* conversation: every turn appended so far is part of the prompt
C3_PromptFromFullConversation ==
    pc \in {"post", "stream"} =>
        \A i \in 1..Len(conversation) : PromptCarries(conversation[i])

\* C4: the prompt of the inference call that follows a tool execution
\* contains the string executeTool returned, and is the prompt of the
\* request sent
C4_PromptHasToolResult ==
    LET ops == Ops
    IN  \A i \in 1..Len(ops) :
            (ops[i].op = "executeTool" /\ i < Len(ops)) =>
                /\ Contains(ops[i + 1].text, ops[i].text)
                /\ (i + 1 = Len(ops) /\ pc \in {"post", "stream"})
                      => request.Prompt = ops[i + 1].text

C4_Witness ==
    LET ops == Ops
    IN  /\ Len(ops) = 4
        /\ ops[3].op = "executeTool"
        /\ ops[3].text = ErrToolOpen \o <<"n","o","p","e">> \o ErrNotFoundClose
        /\ ops[4].op = "runInference"
        /\ pc = "stream"

\* the last operation of the history
LastOp == IF Ops = <<>> THEN "" ELSE Ops[Len(Ops)].op

C5_Step ==
    /\ pc \in {"post", "stream"} => conversation' = conversation
    /\ (pc \in {"post", "stream"} /\ err' # "") => llmResponseContent' = <<>>
    /\ (pc = "returned" /\ err # "") =>
          /\ conversation' = conversation
          /\ readUserInput'
          /\ pc' = "loop"
          /\ log' = Append(log, Event("inferenceError", fullResponse))

C5_State ==
    LET ops == Ops
    IN  \A i \in 1..Len(ops) :
            ops[i].op = "inferenceError" =>
                /\ i > 1 /\ ops[i - 1].op = "runInference"
                /\ ops[i].turns = ops[i - 1].turns
                /\ i = Len(ops) =>
                      (pc = "loop" /\ readUserInput
                          /\ Len(conversation) = ops[i].turns)
                /\ i < Len(ops) =>
                      ops[i + 1].op \in {"getUserMessage", "endOfInput"}

\* C5: a backend call that fails (request error, bad status, read error in
\* the middle of the stream) returns no text; no step of the call and no
\* step of its error handling changes the conversation; the error is
\* reported; and the next operation is a read of user input, also when the
\* call was the follow-up of a tool result
C5_BackendFailure == []C5_State /\ [][C5_Step]_vars

C5_Witness ==
    LET ops == Ops
    IN  /\ Len(ops) = 5
        /\ ops[3].op = "executeTool"
        /\ ops[4].op = "runInference"
        /\ ops[5].op = "inferenceError"
        /\ ops[5].text # <<>>
        /\ pc = "loop"

C6_Step ==
    /\ (pc # "done" /\ pc' = "done") =>
          /\ pc = "loop" /\ readUserInput
          /\ log' = Append(log, Event("endOfInput", <<>>))
          /\ inferences' = inferences
          /\ conversation' = conversation
    /\ pc = "done" => UNCHANGED vars

C6_State ==
    /\ pc = "done" <=> LastOp = "endOfInput"
    /\ \A i \in 1..Len(Ops) : Ops[i].op = "endOfInput" => i = Len(Ops)

\* C6: Run returns only from the read of user input, when getUserMessage
\* signals end of input; no step of an inference, of its error handling or
\* of a tool dispatch ends it; and end of input is the last operation of
\* the run, no inference follows it
C6_TerminatesOnlyAtEndOfInput == []C6_State /\ [][C6_Step]_vars

C6_Witness ==
    /\ pc = "done"
    /\ \E i \in 1..Len(Ops) : Ops[i].op = "inferenceError"
    /\ \E i \in 1..Len(Ops) :
          /\ Ops[i].op = "executeTool"
          /\ Ops[i].text = ErrToolOpen \o <<"n","o","p","e">> \o ErrNotFoundClose

\* C7: when the line read is the literal exit (case-insensitive, trimmed),
\* the session ends: Run has returned, no User turn was appended for the
\* line and no inference was started for it
C7_ExitEndsSession ==
    \A i \in 1..Len(log) :
        (log[i].op = "getUserMessage" /\ IsExit(log[i].text)) =>
            /\ pc = "done"
            /\ i = Len(log)
            /\ Len(conversation) = log[i].turns

\* the strings executeTool can return for the call toolCall
DispatchResults(toolCall) ==
    {executeTool(tools, toolCall, Function).result : Function \in ToolOutcomes}

\* the results of tool executions that are not the string of a Function that
\* succeeded: not found, arguments rejected, or the Function's error
IsFailureText(text) ==
    \/ HasPrefixAt(text, ErrToolOpen, 0)
    \/ HasPrefixAt(text, ErrNotValidJSON, 0)
    \/ HasPrefixAt(text, ErrExecutingOpen, 0)

\* C13: for every tool execution of the run, made when the conversation had
\* n turns, turn n+1 is the Assistant turn with the response that contains
\* the call, turn n+2 is the ToolResult turn "System: Tool <call> executed.
\* Result: <result>" with the string executeTool returned for the call, no
\* second ToolResult turn follows it, and the conversation has as many
\* ToolResult turns as there were tool executions
C13_OneToolResultTurn ==
    /\ \A i \in 1..Len(log) :
          log[i].op = "executeTool" =>
            LET n == log[i].turns
                toolCall == extractToolCall(TurnText(conversation[n + 1]))
            IN  /\ Len(conversation) >= n + 2
                /\ IsAssistantTurn(conversation[n + 1])
                /\ toolCall # <<>>
                /\ log[i].text \in DispatchResults(toolCall)
                /\ conversation[n + 2] =
                       SystemPrefix \o toolCall \o ExecutedResult \o log[i].text
                /\ Len(conversation) >= n + 3 =>
                       ~IsToolResultTurn(conversation[n + 3])
    /\ Cardinality({k \in 1..Len(conversation) : IsToolResultTurn(conversation[k])})
          = Cardinality({i \in 1..Len(log) : log[i].op = "executeTool"})

\* two tool executions in one run, the first with a tool that is not found or
\* whose arguments are rejected, each followed by its ToolResult turn
C13_Witness ==
    \E i, j \in 1..Len(log) :
        /\ i < j
        /\ log[i].op = "executeTool" /\ log[j].op = "executeTool"
        /\ IsFailureText(log[i].text)
        /\ ~HasPrefixAt(log[i].text, ErrExecutingOpen, 0)
        /\ IsToolResultTurn(conversation[log[i].turns + 2])
        /\ IsToolResultTurn(conversation[log[j].turns + 2])

\* C14: for every tool execution of the run, whether its result is the string
\* of a Function that succeeded or a failure text, the operation that follows
\* is an inference whose prompt is the ToolResult turn, made with no turn
\* added in between; and until then the loop is at its top or about to call
\* runInference, with readUserInput false
C14_Step(i) ==
    LET n == log[i].turns
    IN  /\ i < Len(log) =>
              /\ log[i + 1].op = "runInference"
              /\ log[i + 1].turns = n + 2
              /\ log[i + 1].text = conversation[n + 2]
        /\ i = Len(log) =>
              /\ pc \in {"loop", "infer"}
              /\ ~readUserInput
              /\ Len(conversation) = n + 2

C14_OutcomeIndependent ==
    \A i \in 1..Len(log) :
        log[i].op = "executeTool" =>
            /\ IsFailureText(log[i].text) => C14_Step(i)
            /\ ~IsFailureText(log[i].text) => C14_Step(i)

\* a tool execution that failed in the Function, followed by the inference
\* on its ToolResult turn
C14_Witness ==
    \E i \in 1..Len(log) :
        /\ log[i].op = "executeTool"
        /\ HasPrefixAt(log[i].text, ErrExecutingOpen, 0)
        /\ i < Len(log)
        /\ log[i + 1].op = "runInference"
        /\ IsToolResultTurn(log[i + 1].text)

\* ---------------------------------------------------------------------------
\* Properties of extractToolCall and of the handling of a response
\* ---------------------------------------------------------------------------

\* extractToolCall has been applied to the response
Parsed == pc = "parsed"

\* Run has handled the response and is back at the top of the loop
Handled == pc = "loop" /\ Len(log) = 3

Markers == Len(arg.tails)

\* the text written after the last marker of the response
LastTail == arg.tails[Len(arg.tails)]

\* the response was handled as plain text: one Assistant turn with the
\* response was appended, no tool was executed and the user is asked next
PlainText ==
    /\ conversation = << UserPrefix \o <<"h","i">>, AssistantPrefix \o arg.text >>
    /\ log[3].op = "response"
    /\ calls = <<>>
    /\ readUserInput

\* a text with no "(", or with no ")" after its first "("
NoParens(text) ==
    \/ Index(text, <<"(">>) = -1
    \/ LastIndex(text, <<")">>) < Index(text, <<"(">>)

\* the call written in a text after a marker, the empty string when the text
\* is not of the form name(args)
WrittenCallOf(tail) ==
    IF tail.wellFormed
    THEN TrimSpace(tail.name \o <<"(">> \o tail.args \o <<")">>)
    ELSE <<>>

\* C15: for every response that does not contain "tool: ", extractToolCall
\* returns the empty string, and Run appends the Assistant turn with the
\* response, executes no tool and sets readUserInput to read the user next
C15_NoMarker ==
    ~Contains(arg.text, toolPrefix) =>
        /\ Parsed => ret.toolCall = <<>>
        /\ Handled => PlainText

C15_Witness ==
    /\ Handled
    /\ arg.text = <<"l","o","o","k"," ","a","t"," ","f","(","1",")"," ">>
    /\ ~Contains(arg.text, toolPrefix)
    /\ PlainText

\* C16 as stated: for every response whose last marker is followed by
\* name(args), no "(" in name and no ")" after the closing parenthesis, the
\* name and the argument text read by extractToolCall and executeTool are
\* name and args as written
C16_NameAndArguments_AsStated ==
    (Parsed /\ Markers >= 1 /\ LastTail.wellFormed) =>
        /\ ret.toolName = LastTail.name
        /\ ret.argsStr = LastTail.args

\* C16 amended: for every response whose last marker is followed by
\* name(args), no "(" in name and no ")" after the closing parenthesis, the
\* name and the argument text read by extractToolCall and executeTool are
\* name and args, each trimmed of surrounding white space
C16_NameAndArguments ==
    (Parsed /\ Markers >= 1 /\ LastTail.wellFormed) =>
        /\ ret.toolName = TrimSpace(LastTail.name)
        /\ ret.argsStr = TrimSpace(LastTail.args)

\* tool: read_file({"path":"a.txt"}) after the preamble gives read_file and
\* {"path":"a.txt"}
C16_Witness ==
    /\ Parsed
    /\ arg.tails = << WrittenTail(ReadFileName, PathArgument, <<>>) >>
    /\ ret.toolName = ReadFileName
    /\ ret.argsStr = PathArgument

\* C17: for every response with two markers or more, extractToolCall returns
\* the call written after the last marker (the empty string when that text
\* is not a call), and Run executes at most one tool, for that call: the
\* ToolResult turn names it and the Function invoked, if any, is the one of
\* its name with its argument text
C17_LastMarker ==
    Markers >= 2 =>
        /\ Parsed => ret.toolCall = WrittenCallOf(LastTail)
        /\ Handled =>
              /\ Len(calls) <= 1
              /\ \A k \in 1..Len(calls) :
                    /\ tools[calls[k].tool].Name = TrimSpace(LastTail.name)
                    /\ calls[k].input = RawInput(TrimSpace(LastTail.args))
              /\ IF WrittenCallOf(LastTail) = <<>> THEN PlainText
                 ELSE /\ Len(conversation) = 3
                      /\ HasPrefixAt(conversation[3],
                             SystemPrefix \o WrittenCallOf(LastTail) \o ExecutedResult, 0)

\* tool: x(1) tool: read_file({"path":"a.txt"}) gives the second call
C17_Witness ==
    /\ Parsed
    /\ arg.tails = << WrittenTail(<<"x">>, <<"1">>, <<" ">>),
                      WrittenTail(ReadFileName, PathArgument, <<>>) >>
    /\ ret.toolCall = ReadFileName \o <<"(">> \o PathArgument \o <<")">>

\* C18: for every response whose text after the last marker has no "(", or
\* no ")" after its first "(", extractToolCall returns the empty string
\* whatever the earlier markers are followed by, and Run handles the
\* response as plain text
C18_NoCallAfterLastMarker ==
    (Markers >= 1 /\ NoParens(LastTail.text)) =>
        /\ Parsed => ret.toolCall = <<>>
        /\ Handled => PlainText

\* tool: read_file({"path":"a.txt"})tool: read_file is handled as plain text
C18_Witness ==
    /\ Handled
    /\ arg.tails = << WrittenTail(ReadFileName, PathArgument, <<>>),
                      MalformedTail(ReadFileName) >>
    /\ NoParens(LastTail.text)
    /\ PlainText

\* ---------------------------------------------------------------------------
\* Properties of the reading of the stream
\* ---------------------------------------------------------------------------

\* the fragments of records, those with a FALSE in keep left out
RECURSIVE KeptText(_, _)
KeptText(records, keep) ==
    IF records = <<>> THEN <<>>
    ELSE (IF Head(keep) THEN Head(records).Response ELSE <<>>)
            \o KeptText(Tail(records), Tail(keep))

\* the texts records can leave when at most dropped of them are discarded
KeptTexts(records, dropped) ==
    { KeptText(records, keep) :
        keep \in { k \in [1..Len(records) -> BOOLEAN] :
                      Cardinality({i \in 1..Len(records) : ~k[i]}) <= dropped } }

\* the records of the body that have been read
RecordsRead == SubSeq(arg.body, 1, Len(arg.body) - Len(stream))

\* while the stream is read no error is set, and the accumulated text is
\* made of the fragments of the records read, in their order, but for at
\* most one record for each line that did not decode
C20_State ==
    pc = "stream" =>
        /\ err = ""
        /\ stream = SubSeq(arg.body, Len(arg.body) - Len(stream) + 1, Len(arg.body))
        /\ fullResponse \in KeptTexts(RecordsRead, badLines)

\* the step for a line that does not decode, and the steps after it
C20_Step ==
    /\ badLines' = badLines + 1 =>
          /\ pc' = "stream"
          /\ err' = ""
          /\ fullResponse' = fullResponse
          /\ llmResponseContent' = llmResponseContent
          /\ stream' = stream \/ (stream # <<>> /\ stream' = Tail(stream))
    /\ (pc = "stream" /\ badLines > 0 /\ pc' = "stream" /\ badLines' = badLines) =>
          /\ stream' = Tail(stream)
          /\ fullResponse' = fullResponse \o Head(stream).Response
    /\ (pc = "stream" /\ badLines > 0 /\ pc' = "returned" /\ err' = "") =>
          \/ llmResponseContent' = fullResponse
          \/ stream # <<>> /\ Head(stream).Done
                /\ llmResponseContent' = fullResponse \o Head(stream).Response

\* C20: a line of the stream that does not decode is discarded: the step
\* that reads it sets no error, leaves the accumulated text as it is and goes
\* on with the next line; the fragments of the records read after it are
\* appended, and the text returned is the accumulated text
C20_UndecodableRecord == []C20_State /\ [][C20_Step]_vars

\* of the body "a ", "b ", "c" (done) the second record did not decode, and
\* the call has returned "a c" without error
C20_Witness ==
    /\ pc = "returned"
    /\ err = ""
    /\ arg.body = << Rec(<<"a", " ">>, FALSE), Rec(<<"b", " ">>, FALSE),
                     Rec(<<"c">>, TRUE) >>
    /\ llmResponseContent = <<"a", " ", "c">>

\* the records kept by keep, all but the last one of them, are not done
NoneDoneBeforeLast(records, keep) ==
    \A i \in 1..Len(records) :
        (keep[i] /\ records[i].Done) => i = Len(records)

\* the texts a call can return without error for the body: the fragments of
\* the first p records but for at most dropped of them that did not decode,
\* no done record among those kept except the last record read
StoppedTexts(body, dropped) ==
    { KeptText(SubSeq(body, 1, p[1]), p[2]) :
        p \in { q \in UNION { {n} \X [1..n -> BOOLEAN] : n \in 0..Len(body) } :
                   /\ Cardinality({i \in 1..q[1] : ~q[2][i]}) <= dropped
                   /\ NoneDoneBeforeLast(SubSeq(body, 1, q[1]), q[2]) } }

\* while the stream is read, no record that decoded was done; and the text
\* returned without error stops at the first record that decoded and was
\* done
C21_State ==
    /\ pc = "stream" =>
          \E keep \in [1..Len(RecordsRead) -> BOOLEAN] :
              /\ Cardinality({i \in 1..Len(RecordsRead) : ~keep[i]}) <= badLines
              /\ \A i \in 1..Len(RecordsRead) : keep[i] => ~RecordsRead[i].Done
              /\ fullResponse = KeptText(RecordsRead, keep)
    /\ (pc = "returned" /\ err = "") =>
          llmResponseContent \in StoppedTexts(arg.body, MaxBadLines)

\* a done record is read either as a line that does not decode or by the
\* step that returns the accumulated text with its fragment at the end
C21_Step ==
    (pc = "stream" /\ stream # <<>> /\ Head(stream).Done /\ stream' # stream) =>
        \/ pc' = "stream" /\ badLines' = badLines + 1 /\ stream' = Tail(stream)
        \/ pc' = "returned" /\ err' = ""
              /\ llmResponseContent' \in
                    {fullResponse, fullResponse \o Head(stream).Response}
        \/ pc' = "returned" /\ err' # "" /\ llmResponseContent' = <<>>

\* C21: runInference stops reading at the first record that decodes and is
\* done: the text returned is made of the fragments of the records that
\* decoded up to that record, in their order, and no record after it adds
\* to it
C21_StopsAtDone == []C21_State /\ [][C21_Step]_vars

\* of the body "a ", "b " (done), "c" the call has returned "a b "
C21_Witness ==
    /\ pc = "returned"
    /\ err = ""
    /\ arg.body = << Rec(<<"a", " ">>, FALSE), Rec(<<"b", " ">>, TRUE),
                     Rec(<<"c">>, FALSE) >>
    /\ llmResponseContent = <<"a", " ", "b", " ">>

\* ---------------------------------------------------------------------------
\* Properties of the statistics and of one exchange
\* ---------------------------------------------------------------------------

\* a statistics line was printed for the response handled last
StatsPrinted == stats # NoValue

\* the seconds from the start of the session clock to the reading of the
\* clock for the statistics, in a session that has seen a token
Elapsed == clock - sessionStartTime

\* C22: the token count of a response is the number of white-space
\* delimited words of its accumulated text, and the statistics line of the
\* response reports that count and that count divided by the elapsed seconds
C22_TokensOfResponse ==
    (Handled /\ StatsPrinted) =>
        /\ stats.Tokens = FieldsLen(arg.text)
        /\ stats.TPS = TokensPerSecond(FieldsLen(arg.text), stats.Time)

\* C23: after every response handled without error, also one with no word
\* and one that follows earlier exchanges, a statistics line is printed
C23_StatsAfterEveryExchange == Handled => StatsPrinted

\* C24: when the response is handled the throughput reported is the token
\* count divided by the elapsed seconds when these are not 0, and is
\* reported as 0 when the elapsed seconds are 0
C24_Throughput ==
    (Handled /\ firstTokenReceivedInSession) =>
        /\ StatsPrinted
        /\ Elapsed > 0 => stats.TPS = TokensPerSecond(stats.Tokens, Elapsed)
        /\ Elapsed = 0 => stats.TPS = 0

\* the conversation after the exchange, as the user's line, the response
\* text and the string returned by the tool give it
ConversationAfter(text, toolCall, toolResult) ==
    << UserPrefix \o <<"h","i">>, AssistantPrefix \o text >> \o
    (IF toolCall = <<>> THEN <<>>
     ELSE << SystemPrefix \o toolCall \o ExecutedResult \o toolResult >>)

\* C25: the conversation and the position of the loop after an exchange are
\* given by the user's line, the response text and the tool's outcome alone,
\* whatever the token total of the session, the start of its clock and the
\* readings of the clock are; while the stream is read the conversation is
\* the one before the exchange
C25_StatsNotInControlFlow ==
    /\ pc \in {"stream", "returned"} =>
          /\ conversation = << UserPrefix \o <<"h","i">> >>
          /\ readUserInput
    /\ pc \notin {"stream", "returned"} =>
          /\ pc = "loop"
          /\ readUserInput = (arg.call = <<>>)
          /\ \E Function \in ToolOutcomes :
                conversation =
                    ConversationAfter(arg.text, arg.call,
                        executeTool(availableTools, arg.call, Function).result)

\* the same response was handled in a session with earlier tokens, whose
\* clock has run for three seconds when the statistics are printed
C25_Witness ==
    /\ Handled
    /\ arg.call = ListFilesName \o <<"(", ")">>
    /\ arg.session = [first |-> TRUE, total |-> EarlierTokens, start |-> 0 - 2]
    /\ StatsPrinted
    /\ stats.Time = 3
    /\ ~readUserInput

\* C30: extractToolCall is applied once for an exchange, when the stream has
\* been read, to the accumulated text: however the response is cut into
\* fragments, the Assistant turn appended holds the whole text, the tool
\* executed is the one of the call written in the whole text, and while the
\* stream is read no tool is executed and no turn is appended
C30_AccumulatedText ==
    /\ pc \in {"stream", "returned"} =>
          /\ Len(conversation) = 1 /\ Len(log) = 2 /\ calls = <<>>
          /\ pc = "returned" => llmResponseContent = arg.text
    /\ Handled =>
          /\ conversation[2] = AssistantPrefix \o arg.text
          /\ log[3].op = (IF arg.call = <<>> THEN "response" ELSE "executeTool")
          /\ Len(calls) <= 1
          /\ Len(conversation) = (IF arg.call = <<>> THEN 2 ELSE 3)
          /\ arg.call # <<>> =>
                HasPrefixAt(conversation[3],
                            SystemPrefix \o arg.call \o ExecutedResult, 0)

\* "tool: list_files()" sent as "tool: list_", "files", "()" was handled as
\* the call list_files()
C30_Witness ==
    /\ Handled
    /\ arg.fragments = << toolPrefix \o <<"l","i","s","t","_">>,
                          <<"f","i","l","e","s">>, <<"(", ")">> >>
    /\ conversation[2] = AssistantPrefix \o toolPrefix \o ListFilesName \o <<"(", ")">>
    /\ Len(calls) = 1
    /\ tools[calls[1].tool].Name = ListFilesName

\* ---------------------------------------------------------------------------
\* Properties of the conversation, the tool chain and the tool list
\* ---------------------------------------------------------------------------

\* C26: every step leaves the conversation as it is or appends turns at its
\* end: the conversation before the step is a prefix of the one after
C26_AppendOnly ==
    [][ /\ Len(conversation') >= Len(conversation)
        /\ SubSeq(conversation', 1, Len(conversation)) = conversation ]_vars

\* a conversation of two user lines, a plain response, a response with a
\* call and its tool result
C26_Witness ==
    /\ Len(conversation) = 5
    /\ IsUserTurn(conversation[1])
    /\ IsAssistantTurn(conversation[2])
    /\ IsUserTurn(conversation[3])
    /\ IsAssistantTurn(conversation[4])
    /\ IsToolResultTurn(conversation[5])

\* the number of tool executions at the end of the history with nothing but
\* their inferences in between
RECURSIVE ToolChain(_)
ToolChain(ops) ==
    IF Len(ops) >= 2 /\ ops[Len(ops)].op = "executeTool"
                     /\ ops[Len(ops) - 1].op = "runInference"
    THEN 1 + ToolChain(SubSeq(ops, 1, Len(ops) - 2))
    ELSE 0

\* C27: after a chain of tool executions of any length the loop does not ask
\* the user: readUserInput is false and the follow-up inference can be
\* started, the bound on the inferences of a run being the only limit
C27_NoChainLimit ==
    \A n \in 1..MaxInferences :
        ToolChain(log) = n =>
            /\ ~readUserInput
            /\ pc \in {"loop", "infer"}
            /\ pc = "loop" => ENABLED ContinueAfterTool
            /\ (pc = "infer" /\ inferences < MaxInferences) =>
                    ENABLED CallRunInference

\* as many tools executed in a row as the run has inferences, after one
\* user line
C27_Witness ==
    /\ ToolChain(log) = MaxInferences
    /\ Len(log) = 1 + 2 * MaxInferences
    /\ log[1].op = "getUserMessage"
    /\ Len(calls) >= 1
    /\ ~readUserInput

\* C28: no step changes the tool list, which is the list NewAgent was given
C28_State == tools = availableTools

C28_ToolsImmutable == []C28_State /\ [][tools' = tools]_vars

\* two tools have been executed and the list is the one of main
C28_Witness ==
    /\ Len(calls) = 2
    /\ calls[1].tool = 2
    /\ tools = availableTools

OpsOf(op) == {i \in 1..Len(log) : log[i].op = op}

\* the Assistant turns of the conversation whose text yields a tool call
CallTurns ==
    {k \in 1..Len(conversation) :
        /\ IsAssistantTurn(conversation[k])
        /\ extractToolCall(TurnText(conversation[k])) # <<>>}

\* C31: the loop is sequential with at most one tool execution per response:
\* every tool execution directly follows the inference whose response holds
\* the call, so that at most one lies between two inferences; there are as
\* many executions as Assistant turns with a call; a Function is invoked
\* only in the step that handles a returned response, whose body is no
\* longer read, and at most once in that step
C31_State ==
    /\ \A i \in OpsOf("executeTool") : i > 1 /\ log[i - 1].op = "runInference"
    /\ Cardinality(OpsOf("executeTool")) = Cardinality(CallTurns)
    /\ Len(calls) <= Cardinality(OpsOf("executeTool"))

C31_Step ==
    calls' # calls =>
        /\ pc = "returned" /\ stream = <<>> /\ pc' = "loop"
        /\ Len(calls') = Len(calls) + 1
        /\ SubSeq(calls', 1, Len(calls)) = calls
        /\ Len(log') = Len(log) + 1
        /\ log'[Len(log')].op = "executeTool"

C31_OneToolPerResponse == []C31_State /\ [][C31_Step]_vars

\* two inferences in a row, each followed by the one execution of the call
\* of its response, the Function invoked both times
C31_Witness ==
    /\ Len(log) = 5
    /\ log[2].op = "runInference" /\ log[3].op = "executeTool"
    /\ log[4].op = "runInference" /\ log[5].op = "executeTool"
    /\ Len(calls) = 2
    /\ Cardinality(CallTurns) = 2

\* the step reads the first fragment of the session: no token has been
\* received, and the body being read gives its first text
FirstFragmentStep ==
    /\ ~firstTokenReceivedInSession
    /\ pc = "stream"
    /\ fullResponse = <<>>
    /\ fullResponse' # <<>>

C32_State ==
    /\ sessionStartTime <= clock
    /\ StatsPrinted =>
          /\ firstTokenReceivedInSession
          /\ stats.Time = clock - sessionStartTime

C32_Step ==
    /\ sessionStartTime' # sessionStartTime =>
          /\ pc = "infer" /\ pc' = "post"
          /\ ~firstTokenReceivedInSession
          /\ sessionStartTime' = clock'
    /\ firstTokenReceivedInSession => firstTokenReceivedInSession'

TokensCounted == sessionTotalTokens - arg.session.total

\* the sum of the word counts of the fragments, each counted on its own
RECURSIVE SumOfFragmentCounts(_)
SumOfFragmentCounts(fragments) ==
    IF fragments = <<>> THEN 0
    ELSE FieldsLen(Head(fragments)) + SumOfFragmentCounts(Tail(fragments))

\* the fragments put together in the order they were sent
RECURSIVE Concatenation(_)
Concatenation(fragments) ==
    IF fragments = <<>> THEN <<>>
    ELSE Head(fragments) \o Concatenation(Tail(fragments))

\* C33 as stated: the tokens counted for a response are the sum of the word
\* counts of its fragments, each fragment counted on its own
C33_TokensPerFragment_AsStated ==
    Handled => TokensCounted = SumOfFragmentCounts(arg.fragments)

\* C33: the tokens counted for a response are the words of the text its
\* fragments give when put together, so that a word sent in two fragments
\* is counted once
C33_TokensPerFragment ==
    Handled => TokensCounted = FieldsLen(Concatenation(arg.fragments))

\* "tool: list_files()" sent as "tool: list_" and "files()": two words
\* counted, where the fragments have three
C33_Witness ==
    /\ Handled
    /\ arg.fragments = << toolPrefix \o <<"l","i","s","t","_">>,
                          <<"f","i","l","e","s","(", ")">> >>
    /\ TokensCounted = 2
    /\ SumOfFragmentCounts(arg.fragments) = 3

\* C34: whenever an iteration starts with readUserInput false, the
\* conversation is not empty, the operation before was a tool execution and
\* the last entry of the conversation is the ToolResult turn of that
\* execution; the branch that warns of an inference without prior input or
\* tool result is never taken
C34_FollowUpHasToolResult ==
    /\ (pc = "loop" /\ ~readUserInput) =>
          /\ Len(conversation) >= 2
          /\ Len(log) > 0
          /\ log[Len(log)].op = "executeTool"
          /\ log[Len(log)].turns = Len(conversation) - 2
          /\ LET toolCall ==
                     extractToolCall(TurnText(conversation[Len(conversation) - 1]))
             IN  conversation[Len(conversation)] =
                     ToolResultTurn(toolCall, log[Len(log)].text)
    /\ OpsOf("warning") = {}

\* the second iteration in a row that starts with readUserInput false,
\* each after a tool execution
C34_Witness ==
    /\ pc = "loop" /\ ~readUserInput
    /\ Cardinality(OpsOf("executeTool")) = 2
    /\ IsToolResultTurn(conversation[Len(conversation)])
    /\ IsToolResultTurn(conversation[Len(conversation) - 2])

\* ---------------------------------------------------------------------------
\* Properties of the extracted call as executeTool receives it
\* ---------------------------------------------------------------------------

\* the two results of executeTool for a call without "(" or without ")"
IsFormatError(text) ==
    \/ HasPrefixAt(text, ErrMissingOpen, 0)
    \/ HasPrefixAt(text, ErrMissingClose, 0)

\* C35: a call extractToolCall returns has a "(" and ends with ")", with
\* the "(" before the last ")"; so the result of a tool execution made by
\* Run is never one of the two "Invalid tool call format" errors: it is the
\* not-found error, the invalid-JSON error, the error of the Function or
\* the string the Function returned
C35_NoFormatError ==
    /\ (Parsed /\ ret.toolCall # <<>>) =>
          /\ Contains(ret.toolCall, <<"(">>)
          /\ HasSuffix(ret.toolCall, <<")">>)
          /\ Index(ret.toolCall, <<"(">>) < LastIndex(ret.toolCall, <<")">>)
    /\ \A i \in OpsOf("executeTool") :
          /\ ~IsFormatError(log[i].text)
          /\ \/ HasPrefixAt(log[i].text, ErrToolOpen, 0)
             \/ HasPrefixAt(log[i].text, ErrNotValidJSON, 0)
             \/ HasPrefixAt(log[i].text, ErrExecutingOpen, 0)
             \/ log[i].text \in SuccessTexts

\* the response ends with the marker and "f((1)": the call was executed
\* and the tool f was not found
C35_Witness ==
    /\ Handled
    /\ Markers >= 1
    /\ LastTail.text = <<"f", "(", "(", "1", ")">>
    /\ log[3].op = "executeTool"
    /\ log[3].text = ErrToolOpen \o <<"f">> \o ErrNotFoundClose

\* ---------------------------------------------------------------------------
\* Properties of the shape of the conversation
\* ---------------------------------------------------------------------------

\* the turn is an Assistant turn whose text yields a tool call
IsCallTurn(turn) ==
    IsAssistantTurn(turn) /\ extractToolCall(TurnText(turn)) # <<>>

\* C36: at every point between two steps of the loop, the conversation, if
\* not empty, starts with a User turn; every ToolResult turn directly
\* follows an Assistant turn whose text yields a tool call, and is the turn
\* of that call; no two Assistant turns are adjacent; and every Assistant
\* turn whose text yields a tool call is directly followed by its
\* ToolResult turn
C36_ConversationShape ==
    /\ Len(conversation) > 0 => IsUserTurn(conversation[1])
    /\ \A k \in 1..Len(conversation) :
          /\ IsToolResultTurn(conversation[k]) =>
                /\ k > 1
                /\ IsCallTurn(conversation[k - 1])
          /\ (k > 1 /\ IsAssistantTurn(conversation[k])) =>
                ~IsAssistantTurn(conversation[k - 1])
          /\ IsCallTurn(conversation[k]) =>
                /\ k < Len(conversation)
                /\ HasPrefixAt(conversation[k + 1],
                      SystemPrefix \o extractToolCall(TurnText(conversation[k]))
                          \o ExecutedResult, 0)

\* a user line, a response with a call and its tool result, the plain
\* response to the tool result, and the next user line
C36_Witness ==
    /\ Len(conversation) = 5
    /\ IsUserTurn(conversation[1])
    /\ IsCallTurn(conversation[2])
    /\ IsToolResultTurn(conversation[3])
    /\ IsAssistantTurn(conversation[4]) /\ ~IsCallTurn(conversation[4])
    /\ IsUserTurn(conversation[5])

\* ---------------------------------------------------------------------------
\* Properties of a body that ends before its done record
\* ---------------------------------------------------------------------------

\* the text of the fragments read so far from the body of the exchange
TextRead ==
    Concatenation(SubSeq(arg.fragments, 1, Len(arg.fragments) - Len(stream)))

\* C37: when the body ends before a done record, runInference returns the
\* text accumulated from the records read, with no error; Run appends it as
\* an Assistant turn and applies extractToolCall to it as to any response:
\* a call written in it is executed and its ToolResult turn appended, and
\* the user is asked if there is none
C37_State ==
    /\ pc = "stream" => fullResponse = TextRead
    /\ pc = "returned" => err = ""
    /\ Handled =>
          LET text == TurnText(conversation[2])
              toolCall == extractToolCall(text)
          IN  /\ IsAssistantTurn(conversation[2])
              /\ \E n \in 0..Len(arg.fragments) :
                    text = Concatenation(SubSeq(arg.fragments, 1, n))
              /\ readUserInput = (toolCall = <<>>)
              /\ toolCall = <<>> =>
                    /\ Len(conversation) = 2
                    /\ log[3].op = "response"
                    /\ calls = <<>>
              /\ toolCall # <<>> =>
                    /\ Len(conversation) = 3
                    /\ log[3].op = "executeTool"
                    /\ log[3].text \in DispatchResults(toolCall)
                    /\ conversation[3] = ToolResultTurn(toolCall, log[3].text)

C37_Step ==
    /\ (pc = "stream" /\ pc' = "returned") =>
          /\ err' = ""
          /\ \/ llmResponseContent' = fullResponse
             \/ /\ stream # <<>> /\ Head(stream).Done
                /\ llmResponseContent' = fullResponse \o Head(stream).Response
    /\ (pc = "returned" /\ pc' = "loop") =>
          /\ Len(conversation') > Len(conversation)
          /\ conversation'[Len(conversation) + 1] =
                 AssistantPrefix \o llmResponseContent

C37_EndOfStream == []C37_State /\ [][C37_Step]_vars

\* "tool: x(1) tool: list_files()" was sent as "tool: x(1)" and the rest,
\* and the body ended after the first record: x(1) was executed
C37_Witness ==
    /\ Handled
    /\ Len(arg.fragments) = 2
    /\ arg.fragments[1] = toolPrefix \o <<"x", "(", "1", ")">>
    /\ conversation[2] = AssistantPrefix \o arg.fragments[1]
    /\ log[3].op = "executeTool"
    /\ log[3].text = ErrToolOpen \o <<"x">> \o ErrNotFoundClose
    /\ ~readUserInput

\* ---------------------------------------------------------------------------
\* Properties of the session total
\* ---------------------------------------------------------------------------

\* the words of the responses handled so far: each is an Assistant turn
RECURSIVE WordsOfResponses(_)
WordsOfResponses(conv) ==
    IF conv = <<>> THEN 0
    ELSE (IF IsAssistantTurn(Head(conv)) THEN FieldsLen(TurnText(Head(conv)))
          ELSE 0) + WordsOfResponses(Tail(conv))

\* C38: the session total is the sum of the word counts of the responses
\* that runInference returned without error and Run has handled; no step
\* makes it smaller; and the step that handles a failed inference leaves
\* the total as it is and prints no statistics line
C38_State == sessionTotalTokens = WordsOfResponses(conversation)

C38_Step ==
    /\ sessionTotalTokens' >= sessionTotalTokens
    /\ (pc = "returned" /\ err # "") =>
          /\ sessionTotalTokens' = sessionTotalTokens
          /\ firstTokenReceivedInSession' = firstTokenReceivedInSession
          /\ stats' = stats
    /\ (pc = "returned" /\ err = "") =>
          sessionTotalTokens' = sessionTotalTokens + FieldsLen(llmResponseContent)

C38_SessionTotal == []C38_State /\ [][C38_Step]_vars

\* an inference that failed after text had been read, then a response with
\* words: the total is the word count of that response
C38_Witness ==
    /\ pc = "loop"
    /\ \E i \in OpsOf("inferenceError") : FieldsLen(log[i].text) > 0
    /\ Cardinality({k \in 1..Len(conversation) :
                        IsAssistantTurn(conversation[k])}) = 1
    /\ sessionTotalTokens > 0
    /\ sessionTotalTokens = FieldsLen(TurnText(conversation[Len(conversation)]))

\* ---------------------------------------------------------------------------
\* Properties of the order of the checks of executeTool
\* ---------------------------------------------------------------------------

\* C39: the tool is looked up before the argument text is validated: a call
\* whose name is not registered and whose argument text is non-empty and
\* not valid JSON gets the not-found error, not the invalid-JSON error; and
\* whenever executeTool returns the invalid-JSON error the name of the call
\* is registered
C39_NameBeforeArguments ==
    /\ (Dispatched /\ ~Registered /\ arg.args # <<>> /\ ~JsonValid(arg.args)) =>
          /\ ret.result = ErrToolOpen \o TrimSpace(arg.name) \o ErrNotFoundClose
          /\ ~HasPrefixAt(ret.result, ErrNotValidJSON, 0)
    /\ (pc = "dispatched" /\ HasPrefixAt(ret.result, ErrNotValidJSON, 0)) =>
          /\ arg.wellFormed
          /\ Registered

\* list_file({) : the name is one letter short of a registered one and the
\* argument text is not JSON; the tool is reported as not found
C39_Witness ==
    /\ Dispatched /\ ~Registered
    /\ arg.name = <<"l","i","s","t","_","f","i","l","e">>
    /\ arg.args = <<"{">>
    /\ HasPrefixAt(ret.result, ErrToolOpen, 0)
    /\ ret.invoked = <<>>

\* ---------------------------------------------------------------------------
\* Properties of progress
\* ---------------------------------------------------------------------------

\* runInference has returned an error, or a response without a call
NoCallReturned ==
    /\ pc = "returned"
    /\ err # "" \/ extractToolCall(llmResponseContent) = <<>>

\* Run is at the top of the loop and reads the user's line next
AwaitUserInput == pc = "loop" /\ readUserInput

\* C40: when the backend answers every request with an error or a body
\* that ends and every Function returns, every iteration that has called
\* runInference comes back to the top of the loop, an iteration that starts
\* after a tool execution calls runInference, and once the backend has
\* failed or returned a response without a call the loop reaches the read
\* of the user's line
C40_IterationCompletes == (pc \in {"post", "stream", "returned"}) ~> (pc = "loop")

C40_FollowUpStarts ==
    (pc = "loop" /\ ~readUserInput /\ inferences < MaxInferences) ~> (pc = "post")

C40_BackToUser == NoCallReturned ~> AwaitUserInput

C40_Progress ==
    /\ C40_IterationCompletes
    /\ C40_FollowUpStarts
    /\ C40_BackToUser

\* after a tool execution the follow-up inference failed and the loop is
\* back at the read of the user's line
C40_Witness ==
    /\ AwaitUserInput
    /\ Len(log) = 5
    /\ log[3].op = "executeTool"
    /\ log[4].op = "runInference"
    /\ log[5].op = "inferenceError"

====
